---- MODULE Spec2Model ----
(***************************************************************************)
(* Request-processing pipeline of claude-code-proxy: route decision,       *)
(* sanitization, z.ai compatibility transform, tool-usage warning, and     *)
(* the upstream relay.                                                     *)
(*                                                                         *)
(* Text is a sequence of tokens.  A token stands for one lexeme the code   *)
(* looks for (a marker phrase, a tag, a separator) or for other text, so   *)
(* that Python's substring test `m in s` is contiguous-subsequence         *)
(* containment.  "SP" is a space, "NL" a newline.                          *)
(***************************************************************************)
EXTENDS Integers, Sequences, FiniteSets, TLC

VARIABLES pc, inp, out, out2, mem, parsed, prepared, resp, log, calls, conn

vars == <<pc, inp, out, out2, mem, parsed, prepared, resp, log, calls, conn>>

\* the variables of the HTTP path: the parsed body, the prepared request, the
\* response to the caller, the log calls made, the upstream calls issued and the
\* state of the upstream response
httpVars == <<parsed, prepared, resp, log, calls, conn>>

None == "None"

(***************************************************************************)
(* Bounds of the model.                                                    *)
(***************************************************************************)
MaxTextLen == 2
MaxSysItems == 2
MaxTools == 2
MaxBlocks == 2
MaxMsgs == 2
MaxToolCount == 23
MaxThreshold == 2
MaxRawLen == 4
DocBytes == 8

\* limits.max_body_size of the configuration the model runs under
MaxBodySize == 9

(***************************************************************************)
(* Text helpers.                                                           *)
(***************************************************************************)
SeqsUpTo(S, n) == UNION {[1..k -> S] : k \in 0..n}

\* Python: m in t
Contains(t, m) ==
    \E i \in 0..(Len(t) - Len(m)) : SubSeq(t, i + 1, i + Len(m)) = m

\* Python: any(marker in text for marker in markers)
AnyMarkerIn(markers, t) == \E m \in markers : Contains(t, m)

RECURSIVE Join(_, _)
\* Python: sep.join(parts)
Join(sep, parts) ==
    IF Len(parts) = 0 THEN <<>>
    ELSE IF Len(parts) = 1 THEN parts[1]
    ELSE parts[1] \o sep \o Join(sep, Tail(parts))

MapSeq(s, F(_)) == [i \in 1..Len(s) |-> F(s[i])]

IsWS(tok) == tok \in {"SP", "NL", "WS"}

RECURSIVE LStrip(_)
\* Python: t.lstrip()
LStrip(t) == IF Len(t) > 0 /\ IsWS(t[1]) THEN LStrip(Tail(t)) ELSE t

RECURSIVE RStrip(_)
\* Python: t.rstrip()
RStrip(t) ==
    IF Len(t) > 0 /\ IsWS(t[Len(t)]) THEN RStrip(SubSeq(t, 1, Len(t) - 1)) ELSE t

\* Python: t.strip()
Strip(t) == LStrip(RStrip(t))

RECURSIVE ReplaceAll(_, _, _)
\* Python: t.replace(old, new), left to right, non-overlapping
ReplaceAll(t, old, new) ==
    IF Len(old) = 0 \/ Len(t) < Len(old) THEN t
    ELSE IF SubSeq(t, 1, Len(old)) = old
         THEN new \o ReplaceAll(SubSeq(t, Len(old) + 1, Len(t)), old, new)
         ELSE <<t[1]>> \o ReplaceAll(Tail(t), old, new)

\* Python: t.replace(old, new, 1)
ReplaceFirst(t, old, new) ==
    LET S == {i \in 1..(Len(t) - Len(old) + 1) : SubSeq(t, i, i + Len(old) - 1) = old} IN
    IF Len(old) = 0 \/ S = {} THEN t
    ELSE LET i == CHOOSE k \in S : \A j \in S : k <= j IN
         SubSeq(t, 1, i - 1) \o new \o SubSeq(t, i + Len(old), Len(t))

\* Python: t.find(tok, from) for a one-token needle; 0 when not found
Find(t, tok, from) ==
    LET S == {i \in from..Len(t) : t[i] = tok} IN
    IF S = {} THEN 0 ELSE CHOOSE k \in S : \A j \in S : k <= j

\* first position >= i that holds no whitespace token (Len(t) + 1 when none)
SkipWS(t, i) ==
    LET S == {k \in i..Len(t) : ~IsWS(t[k])} IN
    IF S = {} THEN Len(t) + 1 ELSE CHOOSE k \in S : \A j \in S : k <= j

\* Python: name.startswith(prefix)
StartsWith(name, prefix) ==
    Len(prefix) <= Len(name) /\ SubSeq(name, 1, Len(prefix)) = prefix

HasTok(t, toks) == \E i \in 1..Len(t) : t[i] \in toks

(***************************************************************************)
(* The request body (a JSON object).                                       *)
(*                                                                         *)
(* system: absent, a string, a list of elements, or a single object.  A    *)
(* list element is a dict (with a "type", with or without "text", with or  *)
(* without "cache_control") or a non-dict value, kept by its string form.  *)
(***************************************************************************)
SysAbsent == [shape |-> "absent", text |-> <<>>, items |-> <<>>]
SysStr(t) == [shape |-> "str", text |-> t, items |-> <<>>]
SysList(its) == [shape |-> "list", text |-> <<>>, items |-> its]
SysDict(it) == [shape |-> "dict", text |-> <<>>, items |-> <<it>>]
\* "system": null
SysNull == [shape |-> "null", text |-> <<>>, items |-> <<>>]

DictItem(t, cc) ==
    [kind |-> "dict", type |-> "text", hasText |-> TRUE, text |-> t, cc |-> cc]
DictNoText ==
    [kind |-> "dict", type |-> "other", hasText |-> FALSE, text |-> <<>>, cc |-> FALSE]
RawItem(t) ==
    [kind |-> "raw", type |-> "raw", hasText |-> FALSE, text |-> t, cc |-> FALSE]

\* messages: absent or a list of messages; content: a string or a list of blocks
Absent == [shape |-> "absent", list |-> <<>>]
ListOf(l) == [shape |-> "list", list |-> l]

ContentStr(t) == [shape |-> "str", text |-> t, blocks |-> <<>>]
ContentList(bs) == [shape |-> "list", text |-> <<>>, blocks |-> bs]
ContentAbsent == [shape |-> "absent", text |-> <<>>, blocks |-> <<>>]
Msg(role, content) == [role |-> role, content |-> content]

\* a content block; `text` is the "text" of a text block and the "content" of a
\* tool_result block whose content is a string (cshape "str")
TextBlock(t, cc) ==
    [kind |-> "dict", type |-> "text", text |-> t, cshape |-> "absent", cc |-> cc]
ToolUse == [kind |-> "dict", type |-> "tool_use", text |-> <<>>, cshape |-> "absent", cc |-> FALSE]
ToolResult(t) ==
    [kind |-> "dict", type |-> "tool_result", text |-> t, cshape |-> "str", cc |-> FALSE]
ToolResultNested ==
    [kind |-> "dict", type |-> "tool_result", text |-> <<>>, cshape |-> "list", cc |-> FALSE]
\* a tool_result whose content is a list of one text block with text t
ToolResultList(t) ==
    [kind |-> "dict", type |-> "tool_result", text |-> t, cshape |-> "list", cc |-> FALSE]

\* a tool: its name (tokens, so that a prefix test is a prefix test), its
\* description, and input_schema.properties.description.description
Tool(name, desc) == [name |-> name, description |-> desc, param |-> "absent"]
BashTool(desc, param) == [name |-> <<"Bash">>, description |-> desc, param |-> param]

NoToolChoice == [shape |-> "absent", name |-> <<>>]
ToolChoice(name) == [shape |-> "dict", name |-> name]

\* the body's "metadata" member: absent, a dict with a user_id, or a JSON value
\* that is no dict (null, a string, a list)
NoMetadata == [present |-> FALSE, isdict |-> FALSE, user_id |-> None]
Metadata(uid) == [present |-> TRUE, isdict |-> TRUE, user_id |-> uid]
NonDictMetadata == [present |-> TRUE, isdict |-> FALSE, user_id |-> None]

EmptyBody ==
    [system |-> SysAbsent, messages |-> Absent, tools |-> Absent,
     tool_choice |-> NoToolChoice, metadata |-> NoMetadata,
     model |-> "claude", stream |-> FALSE]

(***************************************************************************)
(* core/router.py                                                          *)
(***************************************************************************)
RouteDecision(r) == [route |-> r, model_override |-> None]

\* item.get("text", "") of the dict elements only
RouterParts(items) ==
    MapSeq(SelectSeq(items, LAMBDA it : it.kind = "dict"),
           LAMBDA it : IF it.hasText THEN it.text ELSE <<>>)

_extract_system_text(system) ==
    IF system.shape = "str" THEN system.text
    ELSE IF system.shape = "list" THEN Join(<<"SP">>, RouterParts(system.items))
    ELSE <<>>

decide_subagent_first(body, subagent_markers, anthropic_markers) ==
    LET system_text == _extract_system_text(body.system) IN
    IF AnyMarkerIn(subagent_markers, system_text) THEN RouteDecision("zai")
    ELSE RouteDecision("anthropic")

Lower(tok) == IF tok = "S" THEN "s" ELSE tok

decide_case_folded(body, subagent_markers, anthropic_markers) ==
    LET system_text == MapSeq(_extract_system_text(body.system), Lower)
        fold(ms) == {MapSeq(m, Lower) : m \in ms} IN
    IF AnyMarkerIn(fold(anthropic_markers), system_text) THEN RouteDecision("anthropic")
    ELSE IF AnyMarkerIn(fold(subagent_markers), system_text) THEN RouteDecision("zai")
    ELSE RouteDecision("anthropic")

\* RouteDecider(subagent_markers, anthropic_markers).decide(body)
decide(body, subagent_markers, anthropic_markers) ==
    LET system_text == _extract_system_text(body.system) IN
    IF AnyMarkerIn(anthropic_markers, system_text) THEN RouteDecision("anthropic")
    ELSE IF AnyMarkerIn(subagent_markers, system_text) THEN RouteDecision("zai")
    ELSE RouteDecision("anthropic")

(***************************************************************************)
(* core/sanitize/patterns.py, core/sanitize/tools.py                       *)
(***************************************************************************)
MCP_TOOL_PREFIX == <<"mcp__">>
MCP_TOOL_ALLOWLIST ==
    {<<"mcp__", "codex__", "codex">>, <<"mcp__", "codex__", "codex", "-reply">>}
\* imported by tools.py; patterns.py does not define it
MCP_TOOL_PREFIX_ALLOWLIST == {<<"mcp__", "semvex__">>}

mcp_strippable(name) ==
    /\ StartsWith(name, MCP_TOOL_PREFIX)
    /\ name \notin MCP_TOOL_ALLOWLIST
    /\ ~\E prefix \in MCP_TOOL_PREFIX_ALLOWLIST : StartsWith(name, prefix)

_should_strip_tool(tool, stripped_tools, strip_mcp) ==
    IF tool.name \in stripped_tools THEN TRUE
    ELSE IF ~strip_mcp \/ ~StartsWith(tool.name, MCP_TOOL_PREFIX) THEN FALSE
    ELSE IF tool.name \in MCP_TOOL_ALLOWLIST THEN FALSE
    ELSE ~\E prefix \in MCP_TOOL_PREFIX_ALLOWLIST : StartsWith(tool.name, prefix)

\* the tools are filtered and tool_choice is left as it is
strip_tools_keeping_choice(body, strip_mcp, stripped_tools) ==
    IF body.tools.shape # "list" THEN body
    ELSE [body EXCEPT !.tools = ListOf(SelectSeq(body.tools.list,
                LAMBDA tool : ~_should_strip_tool(tool, stripped_tools, strip_mcp)))]

strip_tools_inplace(body, strip_mcp, stripped_tools) ==
    IF body.tools.shape # "list" THEN body
    ELSE
      LET kept == SelectSeq(body.tools.list,
                    LAMBDA tool : ~_should_strip_tool(tool, stripped_tools, strip_mcp))
          name == body.tool_choice.name
          drop == /\ body.tool_choice.shape = "dict"
                  /\ (name \in stripped_tools \/ (strip_mcp /\ mcp_strippable(name)))
      IN [body EXCEPT !.tools = ListOf(kept),
                      !.tool_choice = IF drop THEN NoToolChoice ELSE @]

(***************************************************************************)
(* core/sanitize/task_tool.py.  Tokens of a Task description:              *)
(*   "OLD_OPENING"    the text OLD_OPENING_PATTERN matches                 *)
(*   "NEW_OPENING"    NEW_TASK_OPENING                                     *)
(*   "- <agent>:"     the head of an agent entry                           *)
(*   "TOOLS"          " (Tools: ...)"                                      *)
(*   "CTX_OPEN" .. "CTX_CLOSE"   the span CONTEXT_PATTERN matches          *)
(*   "EXAMPLE"        "Example usage:"                                     *)
(*   "BASH_OLD_BODY"  the rest of the entry BASH_AGENT_OLD_DESC matches    *)
(***************************************************************************)
AgentHeader(agent) ==
    CASE agent = "Explore" -> "- Explore:"
      [] agent = "Bash" -> "- Bash:"
      [] agent = "Plan" -> "- Plan:"
      [] OTHER -> "- general-purpose:"

RECURSIVE RemoveAgentEntries(_, _)
\* build_agent_pattern(agent).sub("", t): "- <agent>:.*?\(Tools:.*?\)\n"
RemoveAgentEntries(t, hdr) ==
    IF Len(t) = 0 THEN <<>>
    ELSE IF t[1] = hdr
    THEN LET S == {j \in 2..(Len(t) - 1) : t[j] = "TOOLS" /\ t[j + 1] = "NL"} IN
         IF S = {} THEN <<t[1]>> \o RemoveAgentEntries(Tail(t), hdr)
         ELSE LET j == CHOOSE k \in S : \A m \in S : k <= m IN
              RemoveAgentEntries(SubSeq(t, j + 2, Len(t)), hdr)
    ELSE <<t[1]>> \o RemoveAgentEntries(Tail(t), hdr)

RECURSIVE RemoveAgents(_, _)
RemoveAgents(t, agents) ==
    IF Len(agents) = 0 THEN t
    ELSE RemoveAgents(RemoveAgentEntries(t, AgentHeader(agents[1])), Tail(agents))

RECURSIVE RemoveSpans(_, _, _)
\* re.compile(open ".*?" close, DOTALL).sub("", t)
RemoveSpans(t, open, close) ==
    IF Len(t) = 0 THEN <<>>
    ELSE IF t[1] = open /\ Find(t, close, 2) > 0
    THEN RemoveSpans(SubSeq(t, Find(t, close, 2) + 1, Len(t)), open, close)
    ELSE <<t[1]>> \o RemoveSpans(Tail(t), open, close)

RECURSIVE RStripNL(_)
RStripNL(t) ==
    IF Len(t) > 0 /\ t[Len(t)] = "NL" THEN RStripNL(SubSeq(t, 1, Len(t) - 1)) ELSE t

\* EXAMPLE_PATTERN.sub("", t): "\n*Example usage:.*$"
StripExample(t) ==
    LET e == Find(t, "EXAMPLE", 1) IN
    IF e = 0 THEN t ELSE RStripNL(SubSeq(t, 1, e - 1))

RemoveToks(t, toks) == SelectSeq(t, LAMBDA x : x \notin toks)

filter_task_description(description, stripped_agents) ==
    LET d1 == ReplaceAll(description, <<"OLD_OPENING">>, <<"NEW_OPENING">>)
        d2 == RemoveAgents(d1, stripped_agents)
        d3 == RemoveSpans(d2, "CTX_OPEN", "CTX_CLOSE")
        d4 == StripExample(d3)
        d5 == RemoveToks(d4, {"TOOLS"})
    IN ReplaceAll(d5, <<"- Bash:", "BASH_OLD_BODY">>, <<"- Bash:", "BASH_NEW_BODY">>)

\* the first tool named "Task" whose description is not empty (0 when none)
FirstTaskTool(tools) ==
    LET S == {i \in 1..Len(tools) :
                tools[i].name = <<"Task">> /\ tools[i].description # <<>>} IN
    IF S = {} THEN 0 ELSE CHOOSE k \in S : \A j \in S : k <= j

filter_task_tool_inplace(body, stripped_agents) ==
    IF body.tools.shape # "list" THEN body
    ELSE LET i == FirstTaskTool(body.tools.list) IN
         IF i = 0 THEN body
         ELSE [body EXCEPT !.tools.list[i].description =
                               filter_task_description(@, stripped_agents)]

(***************************************************************************)
(* core/sanitize/search_tools.py, edit_tools.py, bash_description.py       *)
(***************************************************************************)
prioritize_description(tool) ==
    IF tool.name = <<"Grep">> /\ tool.description # <<>>
    THEN [tool EXCEPT !.description =
            <<"GREP_PRIORITY_PREFIX">> \o LStrip(RemoveToks(@, {"ALWAYS_GREP"}))]
    ELSE IF tool.name = <<"Glob">> /\ tool.description # <<>>
    THEN [tool EXCEPT !.description = <<"GLOB_PRIORITY_PREFIX">> \o LStrip(@)]
    ELSE tool

prioritize_semantic_search_inplace(body) ==
    IF body.tools.shape # "list" THEN body
    ELSE [body EXCEPT !.tools.list = MapSeq(@, prioritize_description)]

RECURSIVE ReplaceRule(_, _, _)
\* re.compile(rule "\s*").sub(new, t)
ReplaceRule(t, rule, new) ==
    IF Len(t) = 0 THEN <<>>
    ELSE IF t[1] = rule THEN <<new>> \o ReplaceRule(LStrip(Tail(t)), rule, new)
    ELSE <<t[1]>> \o ReplaceRule(Tail(t), rule, new)

relax_description(tool) ==
    IF tool.name = <<"Edit">> /\ tool.description # <<>>
    THEN [tool EXCEPT !.description = ReplaceRule(@, "EDIT_READ_RULE", "EDIT_READ_REPLACEMENT")]
    ELSE IF tool.name = <<"Write">> /\ tool.description # <<>>
    THEN [tool EXCEPT !.description = ReplaceRule(@, "WRITE_READ_RULE", "WRITE_READ_REPLACEMENT")]
    ELSE tool

relax_read_requirement_inplace(body) ==
    IF body.tools.shape # "list" THEN body
    ELSE [body EXCEPT !.tools.list = MapSeq(@, relax_description)]

strip_bash_description_inplace(body) ==
    IF body.tools.shape # "list" THEN body
    ELSE
      LET tools == body.tools.list
          has_task_output == \E i \in 1..Len(tools) : tools[i].name = <<"TaskOutput">>
          S == {i \in 1..Len(tools) : tools[i].name = <<"Bash">>}
          desc == IF has_task_output
                  THEN <<"MINIMAL_BASH_DESCRIPTION", "BASH_BACKGROUND_SUFFIX">>
                  ELSE <<"MINIMAL_BASH_DESCRIPTION">>
      IN IF S = {} THEN body
         ELSE LET i == CHOOSE k \in S : \A j \in S : k <= j IN
              [body EXCEPT !.tools.list[i] =
                  [@ EXCEPT !.description = desc,
                            !.param = IF @ = "absent" THEN "absent"
                                      ELSE "MINIMAL_DESCRIPTION_PARAM"]]

(***************************************************************************)
(* core/transform.py.  Tokens of a message text:                           *)
(*   "SR_OPEN" / "SR_CLOSE"  <system-reminder> / </system-reminder>        *)
(*   "CLAUDE_MD"             "# claudeMd"                                  *)
(*   "MALWARE_SENTENCE"      "Whenever you read a file, you should         *)
(*                            consider whether it would be considered      *)
(*                            malware."                                    *)
(*   "MALWARE_MARKER"        "you should consider whether it would be      *)
(*                            considered malware" without that lead-in     *)
(*   "PLAN_MARKER"           "Plan mode is active"                         *)
(*   "TODO_NOISE", "SESSION_START", "USER_PROMPT_SUBMIT"  the other        *)
(*                            NOISE_PATTERNS                               *)
(***************************************************************************)
NOISE_PATTERNS ==
    {"TODO_NOISE", "PLAN_MARKER", "MALWARE_SENTENCE", "MALWARE_MARKER",
     "SESSION_START", "USER_PROMPT_SUBMIT"}

\* the noise test without the "# claudeMd" exemption
_is_noise_reminder_unexempted(block) ==
    IF block.kind # "dict" THEN FALSE
    ELSE IF block.type # "text" THEN FALSE
    ELSE IF ~HasTok(block.text, {"SR_OPEN"}) THEN FALSE
    ELSE HasTok(block.text, NOISE_PATTERNS)

_is_noise_reminder(block) ==
    IF block.kind # "dict" THEN FALSE
    ELSE IF block.type # "text" THEN FALSE
    ELSE IF ~HasTok(block.text, {"SR_OPEN"}) THEN FALSE
    ELSE IF HasTok(block.text, {"CLAUDE_MD"}) THEN FALSE
    ELSE HasTok(block.text, NOISE_PATTERNS)

\* item.pop("cache_control", None) on the dict elements
PopCacheControl(items) ==
    MapSeq(items, LAMBDA it : IF it.kind = "dict" THEN [it EXCEPT !.cc = FALSE] ELSE it)

strip_message_features(msg) ==
    IF msg.content.shape = "list"
    THEN LET filtered_content ==
                 SelectSeq(msg.content.blocks, LAMBDA block : ~_is_noise_reminder(block))
         IN [msg EXCEPT !.content.blocks = PopCacheControl(filtered_content)]
    ELSE msg

strip_anthropic_features(body) ==
    LET b1 == [body EXCEPT !.metadata = NoMetadata]
        b2 == IF b1.system.shape = "list"
              THEN [b1 EXCEPT !.system.items = PopCacheControl(@)]
              ELSE b1
    IN IF b2.messages.shape = "list"
       THEN [b2 EXCEPT !.messages.list = MapSeq(@, strip_message_features)]
       ELSE b2

\* the caller's body object after strip_anthropic_features(body) returned: the
\* top-level dict and the messages list are copied, the message dicts are not,
\* so msg["content"] = ... is an assignment to the caller's message
strip_anthropic_features_aliased(body) ==
    IF body.messages.shape = "list"
    THEN [body EXCEPT !.messages.list = MapSeq(@, strip_message_features)]
    ELSE body

(***************************************************************************)
(* core/tool_tracker.py                                                    *)
(***************************************************************************)
RECURSIVE SumSeq(_)
SumSeq(s) == IF Len(s) = 0 THEN 0 ELSE s[1] + SumSeq(Tail(s))

count_tool_uses(messages) ==
    SumSeq(MapSeq(messages, LAMBDA msg :
        IF msg.role # "assistant" \/ msg.content.shape # "list" THEN 0
        ELSE Len(SelectSeq(msg.content.blocks,
                 LAMBDA block : block.kind = "dict" /\ block.type = "tool_use"))))

\* the reminder text: its template, the count and the limit it names
Reminder(template, tool_count, limit) ==
    template \o ":" \o ToString(tool_count) \o ":" \o ToString(limit)

\* every template names the base threshold
_get_warning_message_base_limit(tool_count, threshold) ==
    IF tool_count >= threshold + 20 THEN Reminder("CRITICAL", tool_count, threshold)
    ELSE IF tool_count >= threshold + 10 THEN Reminder("WARNING", tool_count, threshold)
    ELSE IF tool_count >= threshold THEN Reminder("Tool usage notice", tool_count, threshold)
    ELSE None

_get_warning_message(tool_count, threshold) ==
    LET critical_threshold == threshold + 20
        strong_threshold == threshold + 10 IN
    IF tool_count >= critical_threshold
    THEN Reminder("CRITICAL", tool_count, critical_threshold)
    ELSE IF tool_count >= strong_threshold
    THEN Reminder("WARNING", tool_count, strong_threshold)
    ELSE IF tool_count >= threshold
    THEN Reminder("Tool usage notice", tool_count, threshold)
    ELSE None

\* the last user message (0 when none)
LastUser(messages) ==
    LET S == {i \in 1..Len(messages) : messages[i].role = "user"} IN
    IF S = {} THEN 0 ELSE CHOOSE k \in S : \A j \in S : j <= k

inject_tool_limit_reminder(body, tool_count, threshold) ==
    LET reminder == _get_warning_message(tool_count, threshold)
        messages == body.messages.list
        i == LastUser(messages) IN
    IF reminder = None THEN body
    ELSE IF Len(messages) = 0 THEN body
    ELSE IF i = 0 THEN body
    ELSE LET content == messages[i].content IN
         [body EXCEPT !.messages.list[i].content =
            IF content.shape = "str"
            THEN ContentStr(<<reminder, "NL", "NL">> \o content.text)
            ELSE IF content.shape = "list"
            THEN ContentList(<<TextBlock(<<reminder>>, FALSE)>> \o content.blocks)
            ELSE ContentStr(<<reminder>>)]

\* services/routing_service.py, _prepare_zai, line 166-169 without the guard
inject_unguarded(stripped, is_messages, threshold) ==
    IF is_messages
    THEN inject_tool_limit_reminder(
            stripped,
            count_tool_uses(IF stripped.messages.shape = "list"
                            THEN stripped.messages.list ELSE <<>>),
            threshold)
    ELSE stripped

\* services/routing_service.py, _prepare_zai, line 166-169: the reminder is
\* injected into the stripped body when the configured threshold is positive
inject_if_configured(stripped, is_messages, threshold) ==
    IF is_messages /\ threshold > 0
    THEN inject_tool_limit_reminder(
            stripped,
            count_tool_uses(IF stripped.messages.shape = "list"
                            THEN stripped.messages.list ELSE <<>>),
            threshold)
    ELSE stripped

\* services/routing_service.py, _prepare_zai: the body it returns
_prepare_zai_body(body, is_messages, threshold) ==
    inject_if_configured(strip_anthropic_features(body), is_messages, threshold)

(***************************************************************************)
(* core/sanitize/reminders.py.  Further tokens:                            *)
(*   "CLAUDE_MD_INTRO"   "As you answer the user's questions, you can use  *)
(*                        the following context:"                          *)
(*   "P1_OLD".."P3_OLD"  the texts PLAN_MODE_REPLACEMENTS looks for;       *)
(*   "P1_NEW", "P2_NEW"  their replacements; the third replacement is its  *)
(*                        old text followed by "P3_APPENDIX"               *)
(*   "OUT_OPEN" / "OUT_CLOSE"  "<output>\n" / "\n</output>"                *)
(*   "LOG"               a "[Tool: name] {...}" line                       *)
(*   "RESULT_SEPARATOR"  "--- RESULT ---"                                  *)
(*   "ENV_OPEN" / "ENV_CLOSE"  <env> / </env>                              *)
(***************************************************************************)
_MALWARE_MARKER == {"MALWARE_SENTENCE", "MALWARE_MARKER"}
plan_mode_marker == {"PLAN_MARKER"}

_content_contains(content, marker) ==
    IF content.shape = "str" THEN HasTok(content.text, marker)
    ELSE IF content.shape = "list"
    THEN \E i \in 1..Len(content.blocks) :
            LET b == content.blocks[i] IN
            /\ b.kind = "dict"
            /\ \/ b.type = "text" /\ HasTok(b.text, marker)
               \/ b.type = "tool_result" /\ b.cshape = "str" /\ HasTok(b.text, marker)
    ELSE FALSE

RECURSIVE HeadEnd(_, _, _)
\* position after "\s*" head[1] "\s*" head[2] ... matched from position p; 0 if no match
HeadEnd(t, p, head) ==
    IF Len(head) = 0 THEN p
    ELSE LET q == SkipWS(t, p) IN
         IF q <= Len(t) /\ t[q] = head[1] THEN HeadEnd(t, q + 1, Tail(head)) ELSE 0

\* last position of a match of "<system-reminder>" "\s*" head ".*?" "</system-reminder>"
\* "\s*" that starts at position 1; 0 if there is none
ReminderEnd(t, head) ==
    IF Len(t) = 0 \/ t[1] # "SR_OPEN" THEN 0
    ELSE LET h == HeadEnd(t, 2, head) IN
         IF h = 0 THEN 0
         ELSE LET c == Find(t, "SR_CLOSE", h) IN
              IF c = 0 THEN 0 ELSE SkipWS(t, c + 1) - 1

RECURSIVE StripReminder(_, _)
\* PATTERN.sub("", t)
StripReminder(t, head) ==
    IF Len(t) = 0 THEN <<>>
    ELSE LET e == ReminderEnd(t, head) IN
         IF e > 0 THEN StripReminder(SubSeq(t, e + 1, Len(t)), head)
         ELSE <<t[1]>> \o StripReminder(Tail(t), head)

\* MALWARE_REMINDER_PATTERN.sub("", text)
_strip_malware_reminder(text) == StripReminder(text, <<"MALWARE_SENTENCE">>)

\* CLAUDE_MD_REMINDER_PATTERN.sub("", text)
_strip_claude_md_reminder(text) == StripReminder(text, <<"CLAUDE_MD_INTRO", "CLAUDE_MD">>)

IsTextBlock(b) == b.kind = "dict" /\ b.type = "text"

\* the list branch: text blocks are transformed, and removed when the result is
\* empty or whitespace
ApplyToBlockList(blocks, transform(_)) ==
    SelectSeq(
        MapSeq(blocks, LAMBDA b : IF IsTextBlock(b) THEN [b EXCEPT !.text = transform(@)] ELSE b),
        LAMBDA b : ~(IsTextBlock(b) /\ Strip(b.text) = <<>>))

\* the string branch: the result, unless it is empty or whitespace
ApplyToString(text, transform(_)) ==
    IF Strip(transform(text)) # <<>> THEN transform(text) ELSE text

_apply_to_content_blocks(content, transform(_)) ==
    IF content.shape = "str" THEN [content EXCEPT !.text = ApplyToString(@, transform)]
    ELSE IF content.shape = "list"
    THEN [content EXCEPT !.blocks = ApplyToBlockList(@, transform)]
    ELSE content

_apply_to_messages(body, transform(_)) ==
    IF body.messages.shape # "list" THEN body
    ELSE [body EXCEPT !.messages.list =
            MapSeq(@, LAMBDA msg :
                [msg EXCEPT !.content = _apply_to_content_blocks(@, transform)])]

_apply_to_system(body, transform(_)) ==
    LET system == body.system IN
    IF system.shape \in {"absent", "null"} THEN body
    ELSE IF system.shape = "str"
    THEN IF system.text = <<>> THEN body
         ELSE [body EXCEPT !.system.text = ApplyToString(@, transform)]
    ELSE IF system.shape = "list"
    THEN IF system.items = <<>> THEN body
         ELSE [body EXCEPT !.system.items = ApplyToBlockList(@, transform)]
    ELSE body

_apply_transform_to_blocks(blocks, block_type, transform(_)) ==
    MapSeq(blocks, LAMBDA block :
        IF block.kind = "dict" /\ block.type = block_type /\ block.cshape = "str"
        THEN [block EXCEPT !.text = transform(@)]
        ELSE block)

\* the tool_result pass over the user messages whose content is a list
ApplyToUserToolResults(body, transform(_)) ==
    [body EXCEPT !.messages.list =
        MapSeq(@, LAMBDA msg :
            IF msg.role = "user" /\ msg.content.shape = "list"
            THEN [msg EXCEPT !.content.blocks =
                    _apply_transform_to_blocks(@, "tool_result", transform)]
            ELSE msg)]

strip_system_reminders_inplace(body) ==
    IF body.messages.shape # "list" THEN body
    ELSE LET messages == body.messages.list
             has_malware == \E i \in 1..Len(messages) :
                                _content_contains(messages[i].content, _MALWARE_MARKER)
         IN IF ~has_malware THEN body
            ELSE ApplyToUserToolResults(
                     _apply_to_messages(body, _strip_malware_reminder),
                     _strip_malware_reminder)

strip_claude_md_reminder_inplace(body) ==
    _apply_to_messages(body, _strip_claude_md_reminder)

\* POST_ENV_INFO_PATTERN.sub(POST_ENV_REPLACEMENT, text): "</env>\n.*$" -> "</env>"
_strip_post_env_info(text) ==
    LET S == {i \in 1..(Len(text) - 1) : text[i] = "ENV_CLOSE" /\ text[i + 1] = "NL"} IN
    IF S = {} THEN text
    ELSE SubSeq(text, 1, CHOOSE k \in S : \A j \in S : k <= j)

strip_post_env_info_inplace(body) == _apply_to_system(body, _strip_post_env_info)

\* PLAN_MODE_REPLACEMENTS applied in order
plan_mode_transform(text) ==
    LET t1 == ReplaceAll(text, <<"P1_OLD">>, <<"P1_NEW">>)
        t2 == ReplaceAll(t1, <<"P2_OLD">>, <<"P2_NEW">>)
    IN ReplaceAll(t2, <<"P3_OLD">>, <<"P3_OLD", "P3_APPENDIX">>)

transform_plan_mode_reminder_inplace(body) ==
    IF body.messages.shape # "list" THEN body
    ELSE LET messages == body.messages.list IN
         IF ~\E i \in 1..Len(messages) :
                _content_contains(messages[i].content, plan_mode_marker)
         THEN body
         ELSE _apply_to_messages(body, plan_mode_transform)

_strip_tool_call_logs(content) ==
    LET i == Find(content, "OUT_OPEN", 1)
        j == IF i = 0 THEN 0 ELSE Find(content, "OUT_CLOSE", i + 1) IN
    IF j = 0 THEN content
    ELSE LET inner == Strip(SubSeq(content, i + 1, j - 1))
             cleaned_inner ==
                 IF HasTok(inner, {"RESULT_SEPARATOR"})
                 THEN Strip(SubSeq(inner, Find(inner, "RESULT_SEPARATOR", 1), Len(inner)))
                 ELSE Strip(RemoveToks(inner, {"LOG"}))
         IN ReplaceAll(content, SubSeq(content, i, j),
                       <<"OUT_OPEN">> \o cleaned_inner \o <<"OUT_CLOSE">>)

strip_tool_result_logs_inplace(body) ==
    IF body.messages.shape # "list" THEN body
    ELSE ApplyToUserToolResults(body, _strip_tool_call_logs)

(***************************************************************************)
(* core/sanitize/system_prompt.py.  "CLI_MARKER" is the phrase "You are an *)
(* interactive CLI tool".                                                  *)
(***************************************************************************)
\* prompts/default_system.txt: the built-in replacement prompt, with its own
\* environment block
get_default_system_prompt ==
    <<"DEFAULT_PROMPT", "ENV_OPEN", "ENV_PLACEHOLDER", "ENV_CLOSE">>

\* str(d) of a dict: its repr, in which a newline of the text is written \n
Repr(item) ==
    <<"REPR_OPEN">>
    \o MapSeq(item.text, LAMBDA tok : IF tok = "NL" THEN "ESC_NL" ELSE tok)
    \o <<"REPR_CLOSE">>

extract_system_text(system) ==
    IF system.shape = "list"
    THEN Join(<<"NL">>, MapSeq(system.items, LAMBDA item : item.text))
    ELSE IF system.shape = "str" THEN system.text
    ELSE IF system.shape = "dict" THEN Repr(system.items[1])
    ELSE <<>>

\* the <env>...</env> block of the text; <<>> stands for None
_extract_env_block(text) ==
    LET start == Find(text, "ENV_OPEN", 1)
        end == IF start = 0 THEN 0 ELSE Find(text, "ENV_CLOSE", start) IN
    IF end = 0 THEN <<>> ELSE SubSeq(text, start, end)

_merge_env(base_prompt, original_system) ==
    LET original_env == _extract_env_block(original_system)
        base_env == _extract_env_block(base_prompt) IN
    IF original_env = <<>> THEN base_prompt
    ELSE IF base_env = <<>> THEN base_prompt
    ELSE ReplaceFirst(base_prompt, base_env, original_env)

HasCliMarker(item) ==
    item.kind = "dict" /\ item.hasText /\ HasTok(item.text, {"CLI_MARKER"})

_normalize_system(system_prompt, original_system) ==
    IF original_system.shape = "list"
    THEN LET replaced == \E i \in 1..Len(original_system.items) :
                            HasCliMarker(original_system.items[i])
             updated == MapSeq(original_system.items, LAMBDA item :
                            IF HasCliMarker(item) THEN [item EXCEPT !.text = system_prompt]
                            ELSE item)
         IN IF replaced THEN SysList(updated) ELSE original_system
    ELSE IF original_system.shape = "dict"
    THEN SysDict(DictItem(system_prompt, FALSE))
    ELSE SysStr(system_prompt)

\* system_prompt = <<>> stands for None (and for "", which is as falsy)
replace_system_prompt_inplace(body, system_prompt) ==
    IF body.system.shape = "absent" THEN body
    ELSE LET prompt == IF system_prompt # <<>> THEN system_prompt
                       ELSE get_default_system_prompt
             original_system == body.system
             original_text == extract_system_text(original_system)
             merged_prompt == _merge_env(prompt, original_text)
             normalized == _normalize_system(merged_prompt, original_system)
         IN IF original_system # normalized
            THEN [body EXCEPT !.system = normalized]
            ELSE body

(***************************************************************************)
(* core/sanitize/__init__.py                                               *)
(***************************************************************************)
\* imported from core.transform, which defines only the copying variant
strip_anthropic_features_inplace(body) == strip_anthropic_features(body)

\* sanitize(body, **opts): the stages in order on a deep copy of the body
\* "if flag: stage(body)" of sanitize
StageIf(flag, stage(_), body) == IF flag THEN stage(body) ELSE body

sanitize(body, opts) ==
    LET b1 == StageIf(opts.strip_tools,
                      LAMBDA b : strip_tools_inplace(b, opts.strip_mcp, opts.stripped_tools),
                      body)
        b2 == filter_task_tool_inplace(b1, opts.stripped_agents)
        b3 == strip_system_reminders_inplace(b2)
        b4 == transform_plan_mode_reminder_inplace(b3)
        b5 == strip_tool_result_logs_inplace(b4)
        b6 == StageIf(opts.strip_claude_md, strip_claude_md_reminder_inplace, b5)
        b7 == StageIf(opts.strip_post_env, strip_post_env_info_inplace, b6)
        b8 == StageIf(opts.replace_system_prompt,
                      LAMBDA b : replace_system_prompt_inplace(b, opts.system_prompt),
                      b7)
        b9 == prioritize_semantic_search_inplace(b8)
        b10 == relax_read_requirement_inplace(b9)
        b11 == strip_bash_description_inplace(b10)
    IN StageIf(opts.target_provider = "zai", strip_anthropic_features_inplace, b11)

\* the working body holds the caller's own objects
no_copy(body) == [body |-> body, shared |-> TRUE]

\* copy.deepcopy(body): an equal body that shares no object with the caller's
deepcopy(body) == [body |-> body, shared |-> FALSE]

\* what a call leaves behind: the body returned, the caller's body as it is
\* after the in-place stages ran on the working body, and whether the two share
\* objects
CallResult(returned, body, shared) ==
    [returned |-> returned, caller |-> IF shared THEN returned ELSE body,
     shared |-> shared]

\* sanitize(body, **opts) as a call: line 62 rebinds body to the deep copy, which
\* is what every stage is given and what is returned
\* sanitize run on the caller's own body
sanitize_call_in_place(body, opts) ==
    CallResult(sanitize(body, opts), body, TRUE)

sanitize_call(body, opts) ==
    CallResult(sanitize(deepcopy(body).body, opts), body, deepcopy(body).shared)

\* the defaults of sanitize's keyword arguments
SanitizeDefaults(stripped_tools) ==
    [target_provider |-> "anthropic", strip_mcp |-> TRUE, strip_claude_md |-> FALSE,
     strip_tools |-> TRUE, strip_post_env |-> FALSE, replace_system_prompt |-> TRUE,
     stripped_tools |-> stripped_tools, stripped_agents |-> <<>>,
     system_prompt |-> <<>>]

(***************************************************************************)
(* api/handlers.py.  A request's raw body is a sequence of tokens, each    *)
(* one byte of the body, except "DOC":                                     *)
(*   "{" "}" ":" ","   the JSON punctuation                                *)
(*   "Q"               a double quote                                      *)
(*   "BS"              a backslash                                         *)
(*   "WS"              a space                                             *)
(*   "BAD"             a byte that is not valid UTF-8 (0xff)               *)
(*   "FFFD"            U+FFFD, what decode(errors="replace") puts for it   *)
(*   "DOC"             the well-formed, DocBytes long text of the JSON     *)
(*                     object the request carries (its doc field)          *)
(*   any other token   plain characters that start no JSON value and no    *)
(*                     escape ("x", "error", "Invalid ", ...)              *)
(***************************************************************************)
\* len(raw_body)
ByteLen(raw) == SumSeq(MapSeq(raw, LAMBDA tok : IF tok = "DOC" THEN DocBytes ELSE 1))

\* raw_body.decode("utf-8", errors="replace")
decode_replace(raw) == MapSeq(raw, LAMBDA tok : IF tok = "BAD" THEN "FFFD" ELSE tok)

\* the characters that may follow a backslash in a JSON string (json.decoder BACKSLASH)
JsonEscapes == {"Q", "BS", "/", "b", "f", "n", "r", "t"}

JsonError(msg) == [ok |-> FALSE, end |-> 0, type |-> "error", msg |-> msg]
JsonValue(type, end) == [ok |-> TRUE, end |-> end, type |-> type, msg |-> <<>>]

RECURSIVE scanstring(_, _)
\* json.decoder.scanstring from the position after the opening quote
scanstring(t, i) ==
    IF i > Len(t) THEN JsonError(<<"Unterminated string starting at">>)
    ELSE IF t[i] = "Q" THEN JsonValue("string", i + 1)
    ELSE IF t[i] = "NL" THEN JsonError(<<"Invalid control character at">>)
    ELSE IF t[i] = "BS"
    THEN IF i + 1 > Len(t) THEN JsonError(<<"Unterminated string starting at">>)
         ELSE IF t[i + 1] \in JsonEscapes THEN scanstring(t, i + 2)
         ELSE JsonError(<<"Invalid ", "BS", "escape">>)
    ELSE scanstring(t, i + 1)

RECURSIVE scan_once(_, _)
RECURSIVE JSONObject(_, _)
RECURSIVE JSONObjectPairs(_, _)

\* json.scanner scan_once at position i (strings and objects; StopIteration is
\* "Expecting value")
scan_once(t, i) ==
    IF i > Len(t) THEN JsonError(<<"Expecting value">>)
    ELSE IF t[i] = "Q" THEN scanstring(t, i + 1)
    ELSE IF t[i] = "{" THEN JSONObject(t, i + 1)
    ELSE IF t[i] = "DOC" THEN JsonValue("doc", i + 1)
    ELSE JsonError(<<"Expecting value">>)

\* json.decoder.JSONObject from the position after "{"
JSONObject(t, i) ==
    LET j == SkipWS(t, i) IN
    IF j <= Len(t) /\ t[j] = "}" THEN JsonValue("object", j + 1)
    ELSE IF j > Len(t) \/ t[j] # "Q"
    THEN JsonError(<<"Expecting property name enclosed in double quotes">>)
    ELSE JSONObjectPairs(t, j)

\* the loop of JSONObject, at the opening quote of a key
JSONObjectPairs(t, j) ==
    LET key == scanstring(t, j + 1) IN
    IF ~key.ok THEN key
    ELSE LET c == SkipWS(t, key.end) IN
    IF c > Len(t) \/ t[c] # ":" THEN JsonError(<<"Expecting ':' delimiter">>)
    ELSE LET value == scan_once(t, SkipWS(t, c + 1)) IN
    IF ~value.ok THEN value
    ELSE LET d == SkipWS(t, value.end) IN
    IF d <= Len(t) /\ t[d] = "}" THEN JsonValue("object", d + 1)
    ELSE IF d > Len(t) \/ t[d] # "," THEN JsonError(<<"Expecting ',' delimiter">>)
    ELSE LET e == SkipWS(t, d + 1) IN
    IF e > Len(t) \/ t[e] # "Q"
    THEN JsonError(<<"Expecting property name enclosed in double quotes">>)
    ELSE JSONObjectPairs(t, e)

\* json.loads(text): JSONDecoder.decode
json_loads(text) ==
    LET obj == scan_once(text, SkipWS(text, 1)) IN
    IF ~obj.ok THEN obj
    ELSE IF SkipWS(text, obj.end) <= Len(text) THEN JsonError(<<"Extra data">>)
    ELSE obj

\* str(e) of a JSONDecodeError: the message and where it is
JSONDecodeErrorStr(msg) == msg \o <<": line 1 column c (char n)">>

\* an HTTP response to the caller
Response(status_code, media_type, content) ==
    [kind |-> "buffered", status_code |-> status_code, media_type |-> media_type,
     content |-> content]

\* '{"error": "Request body too large"}'
TooLargeContent ==
    <<"{", "Q", "error", "Q", ":", "WS", "Q", "Request body too large", "Q", "}">>

\* f'{{"error": "Invalid JSON: {e}"}}'
InvalidJsonContent(e) ==
    <<"{", "Q", "error", "Q", ":", "WS", "Q", "Invalid JSON: ">> \o e \o <<"Q", "}">>

\* a JSON object with no member the proxy reads (what "{}" parses to)
BareObject ==
    [EmptyBody EXCEPT !.model = None]

\* the body json.loads returns for a parsed text: the request's document, an
\* object literal, or a value that is no dict
ParsedBody(value, doc) ==
    IF value.type = "doc" THEN [isdict |-> TRUE, body |-> doc]
    ELSE IF value.type = "object" THEN [isdict |-> TRUE, body |-> BareObject]
    ELSE [isdict |-> FALSE, body |-> BareObject]

NoResponse == [kind |-> "none", status_code |-> 0, media_type |-> "", content |-> <<>>]

NotParsed == [done |-> FALSE, isdict |-> FALSE, body |-> BareObject]

\* what the framework answers when a handler raises an exception that create_app
\* registers no handler for
InternalServerError == Response(500, "text/plain", <<"Internal Server Error">>)

\* ui/log_utils.py, _extract_session_id(body): None for a body that is no dict;
\* body.get("metadata", {}).get("user_id", "") raises AttributeError when the
\* metadata member is present and is no dict
_extract_session_id(value) ==
    [raised |-> value.isdict /\ value.body.metadata.present /\ ~value.body.metadata.isdict]

\* write_incoming_log(method, path, headers, body): _extract_session_id runs in
\* the caller's thread before the write is handed to the log executor
write_incoming_log(value) == [raised |-> _extract_session_id(value).raised]

\* the text is parsed first and the size looked at afterwards
_parse_json_body_size_last(raw, doc, max_body_size) ==
    LET text_body == decode_replace(raw)
        body == json_loads(text_body) IN
    IF ~body.ok
    THEN [response |-> Response(400, "application/json",
                                InvalidJsonContent(JSONDecodeErrorStr(body.msg))),
          parsed |-> NotParsed,
          logged |-> <<[kind |-> "incoming", parsed |-> FALSE, text |-> text_body]>>]
    ELSE IF ByteLen(raw) > max_body_size
    THEN [response |-> Response(413, "application/json", TooLargeContent),
          parsed |-> NotParsed, logged |-> <<>>]
    ELSE [response |-> NoResponse,
          parsed |-> [done |-> TRUE] @@ ParsedBody(body, doc),
          logged |-> <<[kind |-> "incoming", parsed |-> TRUE,
                        body |-> ParsedBody(body, doc).body]>>]

\* _parse_json_body(request, max_body_size): the error Response it returns, or the
\* parsed body, and the write_incoming_log call it makes (doc is the object the
\* "DOC" token of the raw body stands for).  An exception of write_incoming_log
\* leaves the handler and the framework answers 500
_parse_json_body(raw, doc, max_body_size) ==
    IF ByteLen(raw) > max_body_size
    THEN [response |-> Response(413, "application/json", TooLargeContent),
          parsed |-> NotParsed, logged |-> <<>>]
    ELSE LET text_body == decode_replace(raw)
             body == json_loads(text_body) IN
         IF ~body.ok
         THEN [response |-> Response(400, "application/json",
                                     InvalidJsonContent(JSONDecodeErrorStr(body.msg))),
               parsed |-> NotParsed,
               logged |-> <<[kind |-> "incoming", parsed |-> FALSE, text |-> text_body]>>]
         ELSE IF write_incoming_log(ParsedBody(body, doc)).raised
         THEN [response |-> InternalServerError, parsed |-> NotParsed, logged |-> <<>>]
         ELSE [response |-> NoResponse,
               parsed |-> [done |-> TRUE] @@ ParsedBody(body, doc),
               logged |-> <<[kind |-> "incoming", parsed |-> TRUE,
                             body |-> ParsedBody(body, doc).body]>>]

(***************************************************************************)
(* core/headers.py.  Header dicts are functions from names to values; the  *)
(* names of inbound headers are lower case (the framework lowers them).    *)
(***************************************************************************)
EmptyHeaders == [k \in {} |-> ""]

\* key_lower.startswith("anthropic-")
IsAnthropicHeader(key_lower) == key_lower \in {"anthropic-version", "anthropic-beta"}

build_anthropic_headers(headers) ==
    LET passed == {key \in DOMAIN headers :
                      key \in {"authorization", "x-api-key"} \/ IsAnthropicHeader(key)} IN
    [key \in passed |-> headers[key]] @@ ("Content-Type" :> "application/json")

\* the z.ai headers built on top of the inbound auth headers
build_zai_headers_over_inbound(headers, api_key) ==
    build_anthropic_headers(headers)
    @@ ("x-api-key" :> api_key)
    @@ ("anthropic-version" :> "2023-06-01")

build_zai_headers(headers, api_key) ==
    ("Content-Type" :> "application/json")
    @@ ("x-api-key" :> api_key)
    @@ ("anthropic-version" :> IF "anthropic-version" \in DOMAIN headers
                               THEN headers["anthropic-version"] ELSE "2023-06-01")

(***************************************************************************)
(* services/routing_service.py                                             *)
(***************************************************************************)
NotPrepared ==
    [done |-> FALSE, route_name |-> "", target_url |-> "", headers |-> EmptyHeaders,
     body |-> BareObject]

PreparedRequest(route_name, target_url, headers, body) ==
    [done |-> TRUE, route_name |-> route_name, target_url |-> target_url,
     headers |-> headers, body |-> body]

\* core.router.decide_route, the function form of RouteDecider.decide
decide_route(body, subagent_markers, anthropic_markers) ==
    decide(body, subagent_markers, anthropic_markers).route

_should_strip_claude_md(body, cfg) ==
    /\ cfg.strip_claude_md_markers # {}
    /\ AnyMarkerIn(cfg.strip_claude_md_markers, extract_system_text(body.system))

\* the keyword arguments _sanitize_request passes to sanitize
SanitizeArguments(is_zai, strip_claude_md, cfg) ==
    [SanitizeDefaults(cfg.hidden_tools) EXCEPT
        !.strip_mcp = ~is_zai,
        !.strip_claude_md = strip_claude_md,
        !.strip_tools = ~is_zai,
        !.strip_post_env = is_zai]

_sanitize_request(body, is_zai, strip_claude_md, cfg) ==
    sanitize(body, SanitizeArguments(is_zai, strip_claude_md, cfg))

\* the call _log_request makes: log_anthropic or log_zai with the body sent, and
\* for a z.ai messages request the sanitized body as session_body
_log_request(route, body, is_messages, session_body) ==
    IF route = "anthropic"
    THEN [kind |-> "anthropic", body |-> body, has_session_body |-> FALSE,
          session_body |-> BareObject]
    ELSE [kind |-> "zai", body |-> body, has_session_body |-> is_messages,
          session_body |-> IF is_messages THEN session_body ELSE BareObject]

\* the Anthropic request always prepared as a buffered one
_prepare_anthropic_unstreamed(body, headers, is_messages, cfg) ==
    [request |-> PreparedRequest("Anthropic", cfg.anthropic_base_url,
                                 build_anthropic_headers(headers),
                                 [body EXCEPT !.stream = FALSE]),
     logged |-> _log_request("anthropic", body, is_messages, body)]

\* the Anthropic request with the z.ai body preparation applied
_prepare_anthropic_transformed(body, headers, is_messages, cfg) ==
    [request |-> PreparedRequest("Anthropic", cfg.anthropic_base_url,
                                 build_anthropic_headers(headers),
                                 _prepare_zai_body(body, is_messages,
                                                   cfg.subagent_tool_warning)),
     logged |-> _log_request("anthropic", body, is_messages, body)]

\* _prepare_anthropic and _prepare_zai: the PreparedRequest returned and the log
\* call made
_prepare_anthropic(body, headers, is_messages, cfg) ==
    [request |-> PreparedRequest("Anthropic", cfg.anthropic_base_url,
                                 build_anthropic_headers(headers), body),
     logged |-> _log_request("anthropic", body, is_messages, body)]

ZaiPrepared(body, original_body, headers, is_messages, cfg) ==
    [request |-> PreparedRequest("z.ai", cfg.zai_base_url,
                                 build_zai_headers(headers, cfg.zai_api_key), body),
     logged |-> _log_request("zai", body, is_messages, original_body)]

_prepare_zai(original_body, headers, is_messages, cfg) ==
    ZaiPrepared(_prepare_zai_body(original_body, is_messages, cfg.subagent_tool_warning),
                original_body, headers, is_messages, cfg)

\* _prepare_request, line 106-108
PrepareFor(is_zai, body, headers, is_messages, cfg) ==
    IF is_zai
    THEN _prepare_zai(body, headers, is_messages, cfg)
    ELSE _prepare_anthropic(body, headers, is_messages, cfg)

\* the route is decided again on the sanitized body
RedecideAndPrepare(sanitized, headers, is_messages, cfg) ==
    PrepareFor(decide_route(sanitized, cfg.subagent_markers, cfg.anthropic_markers) = "zai",
               sanitized, headers, is_messages, cfg)

_prepare_request_redecided(body, headers, is_messages, cfg) ==
    LET is_zai == decide_route(body, cfg.subagent_markers, cfg.anthropic_markers) = "zai" IN
    RedecideAndPrepare(
        _sanitize_request(body, is_zai, is_zai /\ _should_strip_claude_md(body, cfg), cfg),
        headers, is_messages, cfg)

_prepare_request(body, headers, is_messages, cfg) ==
    LET route == decide_route(body, cfg.subagent_markers, cfg.anthropic_markers)
        is_zai == route = "zai"
        strip_claude_md == is_zai /\ _should_strip_claude_md(body, cfg) IN
    PrepareFor(is_zai, _sanitize_request(body, is_zai, strip_claude_md, cfg),
               headers, is_messages, cfg)

(***************************************************************************)
(* services/upstream.py.  The upstream's reply is [status_code, content,   *)
(* has_content_type, content_type]; its content is a sequence of byte      *)
(* tokens, "BAD" a byte that is not valid UTF-8.                           *)
(***************************************************************************)
\* the keys of UpstreamClient._clients
ClientKeys == {"anthropic", "zai"}

_DISPLAY_NAMES == [route \in ClientKeys |-> IF route = "anthropic" THEN "Anthropic" ELSE "z.ai"]

\* the upstream response object: not yet received, open (headers received, body
\* not released), or closed; drained when its body has been read to the end
NoConnection ==
    [state |-> "none", drained |-> FALSE, status_code |-> 0, content |-> <<>>,
     has_content_type |-> FALSE, content_type |-> ""]

Received(r, state, drained) ==
    [state |-> state, drained |-> drained, status_code |-> r.status_code,
     content |-> r.content, has_content_type |-> r.has_content_type,
     content_type |-> r.content_type]

\* content.decode(): strict UTF-8
CanDecode(content) == ~HasTok(content, {"BAD"})

\* logger.log_error(route_name, status_code, message)
log_error(route_name, status_code, message) ==
    [kind |-> "error", route_name |-> route_name, status_code |-> status_code,
     message |-> message]

\* _build_response(response)
_build_response(r) ==
    Response(r.status_code,
             IF r.has_content_type THEN r.content_type ELSE "application/json",
             r.content)

\* an error observation only for upstream server errors
_log_non_200_server_errors(r, route_name) ==
    IF r.status_code >= 500
    THEN <<log_error(route_name, r.status_code, decode_replace(r.content))>>
    ELSE <<>>

\* _log_non_200(response, logger, route_name): response.text decodes leniently
_log_non_200(r, route_name) ==
    IF r.status_code # 200
    THEN <<log_error(route_name, r.status_code, decode_replace(r.content))>>
    ELSE <<>>

\* a StreamingResponse with no background task
StreamingResponse_no_background(r) ==
    [kind |-> "stream", status_code |-> 200,
     media_type |-> IF r.has_content_type THEN r.content_type ELSE "text/event-stream",
     content |-> <<>>, background |-> "none"]

\* the StreamingResponse _streaming_request returns for a 200: the body is the
\* upstream's byte iterator, the background task is _cleanup_streaming
StreamingResponse(r) ==
    [kind |-> "stream", status_code |-> 200,
     media_type |-> IF r.has_content_type THEN r.content_type ELSE "text/event-stream",
     content |-> <<>>, background |-> "_cleanup_streaming"]

\* the outbound call: client.post(...) or client.send(req, stream=True)
UpstreamCall(route, p, endpoint, streamed) ==
    [client |-> route, url |-> <<p.target_url, endpoint>>, headers |-> p.headers,
     body |-> p.body, streamed |-> streamed]

\* how proxy_request dispatches
RequestMode(body, endpoint) ==
    IF endpoint = "/v1/messages/count_tokens" THEN "count_tokens"
    ELSE IF body.stream THEN "streaming"
    ELSE "non_streaming"

(***************************************************************************)
(* SpecRoute: RouteDecider.decide applied to bounded bodies and marker     *)
(* configurations.                                                         *)
(***************************************************************************)
RouteAlphabet == {"S", "A", "s", "m", "n", "SP", "x"}
RouteItemTexts == SeqsUpTo({"S", "A", "m", "n"}, 1)
RouteItems ==
    {DictItem(t, FALSE) : t \in RouteItemTexts} \cup {DictNoText, RawItem(<<"S">>)}
RouteSystems ==
    {SysAbsent}
    \cup {SysStr(t) : t \in SeqsUpTo(RouteAlphabet, MaxTextLen)}
    \cup {SysList(its) : its \in SeqsUpTo(RouteItems, MaxSysItems)}
    \cup {SysDict(DictItem(t, FALSE)) : t \in RouteItemTexts}

RouteBody(system) == [EmptyBody EXCEPT !.system = system]

MarkerConfigs ==
    { [sub |-> {<<"S">>}, anth |-> {<<"A">>}],
      [sub |-> {<<"S">>, <<"m", "SP", "n">>}, anth |-> {<<"A">>, <<"x">>}],
      [sub |-> {<<"S">>}, anth |-> {}],
      [sub |-> {}, anth |-> {<<"A">>}] }

\* no request is being handled
HttpIdle ==
    /\ parsed = NotParsed
    /\ prepared = NotPrepared
    /\ resp = NoResponse
    /\ log = <<>>
    /\ calls = <<>>
    /\ conn = NoConnection

InitRoute ==
    /\ pc = "route_start"
    /\ inp \in {[body |-> RouteBody(s), cfg |-> c] : s \in RouteSystems, c \in MarkerConfigs}
    /\ out = None
    /\ out2 = None
    /\ mem = None
    /\ HttpIdle

Decide ==
    /\ pc = "route_start"
    /\ out' = decide(inp.body, inp.cfg.sub, inp.cfg.anth)
    /\ pc' = "route_done"
    /\ UNCHANGED <<inp, out2, mem, httpVars>>

\* _prepare_request, line 98-103: the route decision and, on the same body, the
\* CLAUDE.md-strip decision (the strip markers are the subagent markers here)
ShouldStripClaudeMd ==
    /\ pc = "route_start"
    /\ out' = [route |-> decide(inp.body, inp.cfg.sub, inp.cfg.anth).route,
               strip_claude_md |->
                   _should_strip_claude_md(inp.body, [strip_claude_md_markers |-> inp.cfg.sub])]
    /\ pc' = "strip_decided"
    /\ UNCHANGED <<inp, out2, mem, httpVars>>

NextRoute == Decide \/ ShouldStripClaudeMd

SpecRoute == InitRoute /\ [][NextRoute]_vars

\* C27: the text the route decision looks at and the text the CLAUDE.md-strip
\* decision looks at hold the same markers: for every configured marker the two
\* extractions give the same containment answer, so the strip decision is the
\* answer the router's text gives.
C27_ExtractionsAgree ==
    pc = "strip_decided" =>
        /\ \A m \in inp.cfg.sub \cup inp.cfg.anth :
              Contains(_extract_system_text(inp.body.system), m)
                  = Contains(extract_system_text(inp.body.system), m)
        /\ out.strip_claude_md
              = AnyMarkerIn(inp.cfg.sub, _extract_system_text(inp.body.system))

\* C1: whenever the system text holds a force-primary (anthropic) marker, also
\* together with a secondary (subagent) marker, the decision is Primary.
C1_ForcePrimaryWins ==
    (pc = "route_done"
        /\ AnyMarkerIn(inp.cfg.anth, _extract_system_text(inp.body.system)))
    => out.route = "anthropic"

C1_Witness ==
    /\ pc = "route_done"
    /\ AnyMarkerIn(inp.cfg.anth, _extract_system_text(inp.body.system))
    /\ AnyMarkerIn(inp.cfg.sub, _extract_system_text(inp.body.system))
    /\ out.route = "anthropic"

\* C2: the decision is Secondary exactly when the system text holds a secondary
\* marker (token-for-token, so "s" does not match the marker "S") and no
\* force-primary marker; with neither marker, and with no system field, it is
\* Primary.
C2_SecondaryExactly ==
    pc = "route_done" =>
        /\ out.route \in {"anthropic", "zai"}
        /\ (out.route = "zai") <=>
              (/\ AnyMarkerIn(inp.cfg.sub, _extract_system_text(inp.body.system))
               /\ ~AnyMarkerIn(inp.cfg.anth, _extract_system_text(inp.body.system)))
        /\ (inp.body.system.shape = "absent" => out.route = "anthropic")
        /\ (inp.body.system = SysStr(<<"s">>) => out.route = "anthropic")

C2_Witness ==
    /\ pc = "route_done"
    /\ inp.body.system = SysList(<<DictItem(<<"m">>, FALSE), DictItem(<<"n">>, FALSE)>>)
    /\ <<"m", "SP", "n">> \in inp.cfg.sub
    /\ out.route = "zai"

(***************************************************************************)
(* SpecSanitize: sanitize applied to bounded bodies and options, and       *)
(* applied again to its own result.                                        *)
(***************************************************************************)
TaskDescription ==
    <<"OLD_OPENING", "NL", "- Explore:", "d", "TOOLS", "NL",
      "- Bash:", "BASH_OLD_BODY", "TOOLS", "NL",
      "CTX_OPEN", "d", "CTX_CLOSE", "NL", "NL", "EXAMPLE", "d">>

ToolPool ==
    { Tool(<<"Read">>, <<"d">>),
      Tool(<<"Grep">>, <<"d">>),
      Tool(<<"Grep">>, <<"NL", "ALWAYS_GREP", "d">>),
      Tool(<<"Glob">>, <<"d">>),
      Tool(<<"Edit">>, <<"EDIT_READ_RULE", "NL", "d">>),
      Tool(<<"Write">>, <<"WRITE_READ_RULE", "d">>),
      BashTool(<<"d">>, "verbose"),
      Tool(<<"TaskOutput">>, <<>>),
      Tool(<<"WebFetch">>, <<"d">>),
      Tool(<<"mcp__", "other">>, <<"d">>),
      Tool(<<"mcp__", "codex__", "codex">>, <<"d">>),
      Tool(<<"mcp__", "semvex__", "search">>, <<"d">>),
      Tool(<<"Task">>, TaskDescription),
      Tool(<<"Task">>, <<"d", "TOOLS">>),
      Tool(<<"Task">>, <<>>) }

ToolChoicePool ==
    {NoToolChoice, ToolChoice(<<"WebFetch">>), ToolChoice(<<"mcp__", "other">>),
     ToolChoice(<<"Read">>)}

MessageTexts ==
    { <<"hi">>,
      <<"WS">>,
      <<"MALWARE_MARKER">>,
      <<"SR_OPEN", "MALWARE_SENTENCE", "d", "SR_CLOSE", "NL", "hi">>,
      <<"SR_OPEN", "NL", "MALWARE_SENTENCE", "SR_CLOSE", "NL">>,
      <<"SR_OPEN", "PLAN_MARKER", "P1_OLD", "P2_OLD", "P3_OLD", "SR_CLOSE">>,
      <<"SR_OPEN", "CLAUDE_MD_INTRO", "NL", "CLAUDE_MD", "d", "SR_CLOSE", "hi">>,
      <<"SR_OPEN", "TODO_NOISE", "SR_CLOSE">>,
      <<"SR_OPEN", "CLAUDE_MD", "d", "TODO_NOISE", "SR_CLOSE">> }

ToolResultTexts ==
    { <<"r">>,
      <<"m", "OUT_OPEN", "LOG", "LOG", "r", "OUT_CLOSE">>,
      <<"OUT_OPEN", "LOG", "RESULT_SEPARATOR", "NL", "r", "OUT_CLOSE">>,
      <<"r", "SR_OPEN", "MALWARE_SENTENCE", "SR_CLOSE">> }

BlockPool ==
    {TextBlock(t, FALSE) : t \in MessageTexts}
    \cup {TextBlock(<<"hi">>, TRUE), ToolUse, ToolResultNested,
          ToolResultList(<<"r", "SR_OPEN", "MALWARE_SENTENCE", "SR_CLOSE">>)}
    \cup {ToolResult(t) : t \in ToolResultTexts}

ContentPool ==
    {ContentStr(t) : t \in MessageTexts}
    \cup {ContentList(bs) : bs \in SeqsUpTo(BlockPool, MaxBlocks)}

\* a short list of messages for the bodies that hold more than one
MessagePool ==
    { Msg("user", ContentStr(<<"hi">>)),
      Msg("user", ContentStr(<<"SR_OPEN", "MALWARE_SENTENCE", "d", "SR_CLOSE", "NL", "hi">>)),
      Msg("user", ContentList(<<TextBlock(<<"SR_OPEN", "PLAN_MARKER", "SR_CLOSE">>, FALSE),
                                TextBlock(<<"hi">>, TRUE)>>)),
      Msg("user", ContentList(<<TextBlock(<<"P3_OLD">>, FALSE),
                                ToolResult(<<"r", "SR_OPEN", "MALWARE_SENTENCE", "SR_CLOSE">>)>>)),
      Msg("assistant", ContentList(<<TextBlock(<<"ok">>, FALSE), ToolUse>>)),
      Msg("assistant", ContentList(<<ToolUse, ToolUse>>)),
      Msg("assistant", ContentStr(<<"P1_OLD">>)) }

EnvSystemText ==
    <<"CLI_MARKER", "x", "ENV_OPEN", "e", "NL", "e", "ENV_CLOSE", "NL", "S", "post">>

SystemPool ==
    { SysAbsent, SysNull,
      SysStr(<<"x">>),
      SysStr(<<"S">>),
      SysStr(<<"A", "S">>),
      SysStr(EnvSystemText),
      SysStr(<<"x", "ENV_OPEN", "e", "ENV_CLOSE">>),
      SysList(<<DictItem(<<"x">>, TRUE), DictItem(EnvSystemText, TRUE)>>),
      SysList(<<DictItem(<<"S">>, FALSE), RawItem(<<"x">>)>>),
      SysList(<<DictItem(<<"x">>, FALSE), DictItem(<<"ENV_OPEN", "e", "ENV_CLOSE", "NL", "S">>, TRUE)>>),
      SysDict(DictItem(EnvSystemText, TRUE)),
      SysDict(DictItem(<<"x">>, FALSE)) }

hidden_tools == {<<"WebFetch">>, <<"NotebookEdit">>, <<"WebSearch">>}

OptionsPool ==
    { SanitizeDefaults(hidden_tools),
      [SanitizeDefaults(hidden_tools) EXCEPT !.strip_mcp = FALSE, !.strip_tools = FALSE,
                                             !.strip_post_env = TRUE],
      [SanitizeDefaults(hidden_tools) EXCEPT !.strip_mcp = FALSE, !.strip_tools = FALSE,
                                             !.strip_post_env = TRUE, !.strip_claude_md = TRUE],
      [SanitizeDefaults(hidden_tools) EXCEPT !.stripped_agents = <<"Explore", "Bash">>,
                                             !.system_prompt = <<"CUSTOM_PROMPT", "ENV_OPEN", "ENV_CLOSE">>],
      [SanitizeDefaults(hidden_tools) EXCEPT !.replace_system_prompt = FALSE,
                                             !.strip_mcp = FALSE],
      [SanitizeDefaults(hidden_tools) EXCEPT !.system_prompt = <<"PLAIN_PROMPT">>] }

SanitizeBodies ==
    {[EmptyBody EXCEPT !.tools = ListOf(ts), !.tool_choice = tc] :
        ts \in SeqsUpTo(ToolPool, MaxTools), tc \in ToolChoicePool}
    \cup {[EmptyBody EXCEPT !.messages = ListOf(<<Msg(r, c)>>)] :
            r \in {"user", "assistant"}, c \in ContentPool}
    \cup {[EmptyBody EXCEPT !.messages = ListOf(ms), !.system = sys] :
            ms \in SeqsUpTo(MessagePool, MaxMsgs), sys \in SystemPool}
    \cup {[EmptyBody EXCEPT !.metadata = Metadata("user_session_abc"), !.stream = TRUE,
                            !.system = sys, !.tools = ListOf(<<t>>)] :
            sys \in SystemPool, t \in ToolPool}

InitSanitize ==
    /\ pc = "sanitize_start"
    /\ inp \in {[body |-> b, opts |-> o] : b \in SanitizeBodies, o \in OptionsPool}
    /\ out = None
    /\ out2 = None
    /\ mem = None
    /\ HttpIdle

Sanitize ==
    /\ pc = "sanitize_start"
    /\ mem' = sanitize_call(inp.body, inp.opts)
    /\ out' = mem'.returned
    /\ pc' = "sanitized"
    /\ UNCHANGED <<inp, out2, httpVars>>

SanitizeAgain ==
    /\ pc = "sanitized"
    /\ out2' = sanitize(out, inp.opts)
    /\ pc' = "sanitized_twice"
    /\ UNCHANGED <<inp, out, mem, httpVars>>

\* the system-prompt stage on its own, as sanitize calls it
ReplaceSystemPrompt ==
    /\ pc = "sanitize_start"
    /\ inp.opts.replace_system_prompt
    /\ out' = replace_system_prompt_inplace(inp.body, inp.opts.system_prompt)
    /\ pc' = "system_replaced"
    /\ UNCHANGED <<inp, out2, mem, httpVars>>

\* the tool-filtering stage on its own, as sanitize calls it
StripTools ==
    /\ pc = "sanitize_start"
    /\ inp.opts.strip_tools
    /\ inp.body.tools.shape = "list"
    /\ out' = strip_tools_inplace(inp.body, inp.opts.strip_mcp, inp.opts.stripped_tools)
    /\ pc' = "tools_stripped"
    /\ UNCHANGED <<inp, out2, mem, httpVars>>

\* the reminder-stripping stage on its own, as sanitize calls it
StripSystemReminders ==
    /\ pc = "sanitize_start"
    /\ inp.body.messages.shape = "list"
    /\ out' = strip_system_reminders_inplace(inp.body)
    /\ pc' = "reminders_stripped"
    /\ UNCHANGED <<inp, out2, mem, httpVars>>

\* the Task-description stage on its own, as sanitize calls it
FilterTaskTool ==
    /\ pc = "sanitize_start"
    /\ inp.body.tools.shape = "list"
    /\ out' = filter_task_tool_inplace(inp.body, inp.opts.stripped_agents)
    /\ pc' = "task_filtered"
    /\ UNCHANGED <<inp, out2, mem, httpVars>>

NextSanitize ==
    \/ Sanitize
    \/ SanitizeAgain
    \/ ReplaceSystemPrompt
    \/ StripTools
    \/ StripSystemReminders
    \/ FilterTaskTool

SpecSanitize == InitSanitize /\ [][NextSanitize]_vars

\* a name with the reserved prefix that is outside the allow-lists
ReservedOutsideAllowList(name) ==
    /\ Len(name) >= 1
    /\ name[1] = "mcp__"
    /\ name \notin MCP_TOOL_ALLOWLIST
    /\ \A prefix \in MCP_TOOL_PREFIX_ALLOWLIST :
          Len(name) < Len(prefix) \/ SubSeq(name, 1, Len(prefix)) # prefix

ToBeRemoved(name, opts) ==
    \/ name \in opts.stripped_tools
    \/ opts.strip_mcp /\ ReservedOutsideAllowList(name)

\* C21: after tool filtering the tools are the inbound tools whose name is neither
\* in stripped_tools nor (with strip_mcp) a reserved-prefix name outside the
\* allow-list, in their inbound order; a tool_choice that named a removed tool is
\* gone, one that is left names no removed tool, and nothing else has changed.
C21_ToolsFiltered ==
    pc = "tools_stripped" =>
        /\ out.tools.shape = "list"
        /\ out.tools.list = SelectSeq(inp.body.tools.list,
                                LAMBDA t : ~ToBeRemoved(t.name, inp.opts))
        /\ \A i \in 1..Len(out.tools.list) : ~ToBeRemoved(out.tools.list[i].name, inp.opts)
        /\ \A i \in 1..Len(inp.body.tools.list) :
              (/\ ToBeRemoved(inp.body.tools.list[i].name, inp.opts)
               /\ inp.body.tool_choice.shape = "dict")
              => (/\ inp.body.tool_choice.name = inp.body.tools.list[i].name
                       => out.tool_choice = NoToolChoice
                  /\ out.tool_choice.shape = "dict"
                       => out.tool_choice.name # inp.body.tools.list[i].name)
        /\ out.tool_choice \in {inp.body.tool_choice, NoToolChoice}
        /\ out = [inp.body EXCEPT !.tools = out.tools, !.tool_choice = out.tool_choice]

C21_Witness ==
    /\ pc = "tools_stripped"
    /\ inp.opts.strip_mcp
    /\ Len(inp.body.tools.list) = 2
    /\ inp.body.tools.list[1].name = <<"mcp__", "other">>
    /\ inp.body.tools.list[2].name = <<"mcp__", "semvex__", "search">>
    /\ inp.body.tool_choice = ToolChoice(<<"mcp__", "other">>)
    /\ Len(out.tools.list) = 1
    /\ out.tool_choice = NoToolChoice

\* the content blocks of the body's messages
MessageBlocks(body) ==
    IF body.messages.shape # "list" THEN {}
    ELSE UNION {IF body.messages.list[i].content.shape = "list"
                THEN {<<i, j, body.messages.list[i].content.blocks[j]>> :
                        j \in 1..Len(body.messages.list[i].content.blocks)}
                ELSE {} : i \in 1..Len(body.messages.list)}

\* the text holds a malware reminder block
HoldsMalwareReminder(text) == _strip_malware_reminder(text) # text

\* the marker phrase occurs in a message of the body
MalwareMarkerFound(body) ==
    /\ body.messages.shape = "list"
    /\ \E i \in 1..Len(body.messages.list) :
          _content_contains(body.messages.list[i].content, _MALWARE_MARKER)

\* C22: when the malware marker occurs in a message, after the stage no text block
\* and no tool-result content of any message holds the malware reminder block.
C22_ReminderStrippedEverywhere ==
    (pc = "reminders_stripped" /\ MalwareMarkerFound(inp.body)) =>
        \A b \in MessageBlocks(out) :
            (b[3].kind = "dict" /\ b[3].type \in {"text", "tool_result"})
            => ~HoldsMalwareReminder(b[3].text)

\* the first tool of the list named "Task" (0 when there is none)
FirstNamedTask(tools) ==
    LET S == {i \in 1..Len(tools) : tools[i].name = <<"Task">>} IN
    IF S = {} THEN 0 ELSE CHOOSE k \in S : \A j \in S : k <= j

\* C26: Task-description rewriting leaves every tool but the first tool named
\* "Task" as it was, and changes nothing else in the body.
C26_OnlyFirstTaskRewritten ==
    pc = "task_filtered" =>
        /\ Len(out.tools.list) = Len(inp.body.tools.list)
        /\ \A i \in 1..Len(inp.body.tools.list) :
              i # FirstNamedTask(inp.body.tools.list)
                  => out.tools.list[i] = inp.body.tools.list[i]
        /\ out = [inp.body EXCEPT !.tools = out.tools]

\* C8: sanitize applied twice gives the body sanitize applied once gives, for the
\* whole pipeline and for each stage on its own.
C8_Idempotent ==
    pc = "sanitized_twice" => out2 = out

\* the texts a system value holds: the string, or the text of its objects
SystemTexts(system) ==
    IF system.shape = "str" THEN {system.text}
    ELSE {system.items[i].text :
             i \in {j \in 1..Len(system.items) :
                       system.items[j].kind = "dict" /\ system.items[j].hasText}}

\* the replacement prompt of a sanitize call
PromptOf(opts) ==
    IF opts.system_prompt # <<>> THEN opts.system_prompt ELSE get_default_system_prompt

\* C12: when a system text holds the built-in prompt marker and an <env> block,
\* the system after replacement holds the replacement prompt's text with the
\* original <env> block verbatim, and not the replacement's own <env> block.
C12_EnvPreserved ==
    pc = "system_replaced" =>
        \A t \in SystemTexts(inp.body.system) :
            (HasTok(t, {"CLI_MARKER"}) /\ _extract_env_block(t) # <<>>) =>
                \E u \in SystemTexts(out.system) :
                    /\ Contains(u, <<PromptOf(inp.opts)[1]>>)
                    /\ Contains(u, _extract_env_block(t))
                    /\ LET own == _extract_env_block(PromptOf(inp.opts)) IN
                       own # <<>> => ~Contains(u, own)

PlainTokens == {"hi", "ok", "r", "d", "x", "WS", "NL", "SP"}

PlainText(t) == \A i \in 1..Len(t) : t[i] \in PlainTokens

\* a body with no tools, no system and no text that matches a marker or a
\* reminder shape
PlainBody(body) ==
    /\ body.tools.shape = "absent"
    /\ body.system.shape = "absent"
    /\ \A i \in 1..Len(body.messages.list) :
          LET content == body.messages.list[i].content IN
          /\ PlainText(content.text)
          /\ \A j \in 1..Len(content.blocks) : PlainText(content.blocks[j].text)

\* no element of the system value holds the built-in prompt's marker phrase
NoMarkerElement(system) ==
    \A t \in SystemTexts(system) : ~HasTok(t, {"CLI_MARKER"})

\* C23: system-prompt replacement leaves a system value none of whose elements
\* holds the marker phrase as it was, whether it is a string, a single object or a
\* list.
C23_NoMarkerNoChange ==
    (/\ pc = "system_replaced"
     /\ inp.body.system.shape \in {"str", "dict", "list"}
     /\ NoMarkerElement(inp.body.system))
    => out.system = inp.body.system

\* C13: a body with no tools, no system and no text matching a marker or a
\* reminder shape comes out of the sanitization stages equal to the inbound body.
C13_PlainBodyUnchanged ==
    (pc = "sanitized" /\ PlainBody(inp.body)) => out = inp.body

(***************************************************************************)
(* SpecTransform: strip_anthropic_features applied to bounded bodies.      *)
(***************************************************************************)
InitTransform ==
    /\ pc = "transform_start"
    /\ inp \in {[body |-> b] : b \in SanitizeBodies}
    /\ out = None
    /\ out2 = None
    /\ mem = None
    /\ HttpIdle

StripAnthropicFeatures ==
    /\ pc = "transform_start"
    /\ out' = strip_anthropic_features(inp.body)
    /\ mem' = strip_anthropic_features_aliased(inp.body)
    /\ pc' = "transformed"
    /\ UNCHANGED <<inp, out2, httpVars>>

NextTransform == StripAnthropicFeatures

SpecTransform == InitTransform /\ [][NextTransform]_vars

\* C9: a message whose content list was not empty in the input does not have an
\* empty content list in the result of strip_anthropic_features.
C9_ContentNeverEmptied ==
    (pc = "transformed" /\ inp.body.messages.shape = "list") =>
        \A i \in 1..Len(inp.body.messages.list) :
            LET before == inp.body.messages.list[i].content
                after == out.messages.list[i].content IN
            (before.shape = "list" /\ before.blocks # <<>>) => after.blocks # <<>>

\* a block the compatibility filter may remove: a text block that is a
\* system-reminder with a noise marker and without the preserve marker
RemovableNoise(block) ==
    /\ block.kind = "dict"
    /\ block.type = "text"
    /\ HasTok(block.text, {"SR_OPEN"})
    /\ HasTok(block.text, NOISE_PATTERNS)
    /\ ~HasTok(block.text, {"CLAUDE_MD"})

\* C24: the compatibility filter keeps, in order, every block of a message's
\* content list that is not a system-reminder text block with a noise marker and
\* no preserve marker; a block holding the preserve marker is kept also when it
\* holds a noise marker, and nothing else is removed.
C24_PreserveMarkerWins ==
    (pc = "transformed" /\ inp.body.messages.shape = "list") =>
        \A i \in 1..Len(inp.body.messages.list) :
            LET before == inp.body.messages.list[i].content
                after == out.messages.list[i].content IN
            before.shape = "list" =>
                /\ MapSeq(after.blocks, LAMBDA b : [b EXCEPT !.cc = FALSE])
                     = MapSeq(SelectSeq(before.blocks, LAMBDA b : ~RemovableNoise(b)),
                              LAMBDA b : [b EXCEPT !.cc = FALSE])
                /\ \A j \in 1..Len(before.blocks) :
                      HasTok(before.blocks[j].text, {"CLAUDE_MD"}) =>
                          \E k \in 1..Len(after.blocks) :
                              /\ after.blocks[k].text = before.blocks[j].text
                              /\ after.blocks[k].type = before.blocks[j].type

C24_Witness ==
    /\ pc = "transformed"
    /\ inp.body.messages.shape = "list"
    /\ Len(inp.body.messages.list) = 1
    /\ inp.body.messages.list[1].content.shape = "list"
    /\ Len(inp.body.messages.list[1].content.blocks) = 2
    /\ inp.body.messages.list[1].content.blocks[1].text = <<"SR_OPEN", "TODO_NOISE", "SR_CLOSE">>
    /\ inp.body.messages.list[1].content.blocks[2].text
          = <<"SR_OPEN", "CLAUDE_MD", "d", "TODO_NOISE", "SR_CLOSE">>
    /\ Len(out.messages.list[1].content.blocks) = 1
    /\ out.messages.list[1].content.blocks[1].text
          = <<"SR_OPEN", "CLAUDE_MD", "d", "TODO_NOISE", "SR_CLOSE">>

(***************************************************************************)
(* SpecTracker: inject_tool_limit_reminder called with bounded counts and  *)
(* thresholds, and called the way _prepare_zai calls it.                   *)
(***************************************************************************)
TrackerBodies ==
    {[EmptyBody EXCEPT !.messages = ListOf(ms)] : ms \in SeqsUpTo(MessagePool, MaxMsgs)}
    \cup {EmptyBody,
          [EmptyBody EXCEPT !.messages = ListOf(<<Msg("user", ContentAbsent)>>)]}

InitTracker ==
    /\ pc = "tracker_start"
    /\ inp \in {[body |-> b, tool_count |-> n, threshold |-> t, is_messages |-> m] :
                   b \in TrackerBodies, n \in 0..MaxToolCount,
                   t \in (0 - MaxThreshold)..MaxThreshold, m \in BOOLEAN}
    /\ out = None
    /\ out2 = None
    /\ mem = None
    /\ HttpIdle

\* only the top-level dict is copied: the message assigned to is the caller's
top_level_copy(body) == [body |-> body, shared |-> TRUE]

\* inject_tool_limit_reminder, line 71-73: the top-level dict, the message list
\* and the targeted message are copied before anything is assigned to them
surgical_copy(body) == [body |-> body, shared |-> FALSE]

\* a call of inject_tool_limit_reminder: what it returns and what the caller's
\* body is afterwards
inject_call(body, tool_count, threshold) ==
    CallResult(inject_tool_limit_reminder(surgical_copy(body).body, tool_count, threshold),
               body, surgical_copy(body).shared)

InjectToolLimitReminder ==
    /\ pc = "tracker_start"
    /\ mem' = inject_call(inp.body, inp.tool_count, inp.threshold)
    /\ out' = mem'.returned
    /\ pc' = "injected"
    /\ UNCHANGED <<inp, out2, httpVars>>

PrepareZaiBody ==
    /\ pc = "tracker_start"
    /\ out' = _prepare_zai_body(inp.body, inp.is_messages, inp.threshold)
    /\ pc' = "zai_body_prepared"
    /\ UNCHANGED <<inp, out2, mem, httpVars>>

NextTracker == InjectToolLimitReminder \/ PrepareZaiBody

SpecTracker == InitTracker /\ [][NextTracker]_vars

InjectedReminder(body, i) ==
    LET content == body.messages.list[i].content IN
    IF content.shape = "list" THEN content.blocks[1].text[1] ELSE content.text[1]

\* the band a count falls in: 0 for [threshold, threshold+10), 1 for
\* [threshold+10, threshold+20), 2 from threshold+20 on
Band(tool_count, threshold) ==
    CHOOSE k \in 0..2 :
        /\ tool_count >= threshold + 10 * k
        /\ (k < 2 => tool_count < threshold + 10 * (k + 1))

\* C11: an injected warning names the current count and the lower boundary of
\* the band the count falls in, with the one template of that band.
C11_BandBoundary ==
    (/\ pc = "injected"
     /\ inp.tool_count >= inp.threshold
     /\ LastUser(inp.body.messages.list) > 0)
    => LET k == Band(inp.tool_count, inp.threshold)
           template == <<"Tool usage notice", "WARNING", "CRITICAL">>[k + 1]
       IN InjectedReminder(out, LastUser(inp.body.messages.list))
              = Reminder(template, inp.tool_count, inp.threshold + 10 * k)

C11_Witness ==
    /\ pc = "injected"
    /\ inp.tool_count = 12
    /\ inp.threshold = 2
    /\ LastUser(inp.body.messages.list) > 0
    /\ InjectedReminder(out, LastUser(inp.body.messages.list)) = "WARNING:12:12"

(***************************************************************************)
(* Spec: one request through _handle_proxy_request: _parse_json_body, the  *)
(* routing service's prepare_messages / prepare_count_tokens, and          *)
(* UpstreamClient.proxy_request.                                           *)
(***************************************************************************)
Endpoints == {"/v1/messages", "/v1/messages/count_tokens"}

RawAlphabet == {"{", "}", "Q", "BS", "x", "BAD", ":", "WS"}

ShortRaws == SeqsUpTo(RawAlphabet, MaxRawLen)

LongRaws ==
    { <<"{", "Q", "k", "Q", ":", "Q", "BAD", "Q", "}">>,
      <<"{", "Q", "k", "Q", ":", "Q", "x", "Q", "}">>,
      <<"{", "Q", "k", "Q", ":", "DOC">>,
      <<"{", "Q", "k", "Q", ":", "Q", "BS", "x", "Q", "}">>,
      <<"{", "Q", "k", "Q", ":", "Q", "BS", "Q", "Q", ",", "}">>,
      <<"x", "x", "x", "x", "x", "x", "x", "x", "x", "x">> }

DocRaws ==
    { <<"DOC">>, <<"DOC", "WS">>, <<"WS", "DOC">>, <<"DOC", "WS", "WS">>,
      <<"DOC", "x">>, <<"DOC", "x", "WS">>, <<"DOC", "BAD">> }

HeadersPool ==
    { ("authorization" :> "Bearer t") @@ ("anthropic-version" :> "2024-01-01")
          @@ ("user-agent" :> "cli"),
      ("x-api-key" :> "k") @@ ("anthropic-beta" :> "b") @@ ("content-type" :> "text/plain") }

Config(markers, subagent_tool_warning) ==
    [subagent_markers |-> markers.sub, anthropic_markers |-> markers.anth,
     strip_claude_md_markers |-> {<<"S">>}, hidden_tools |-> hidden_tools,
     subagent_tool_warning |-> subagent_tool_warning, max_body_size |-> MaxBodySize,
     anthropic_base_url |-> "https://api.anthropic.com",
     zai_base_url |-> "https://api.z.ai/api/anthropic", zai_api_key |-> "zai-key"]

Configs == {Config(m, w) : m \in MarkerConfigs, w \in {0, 1}}

PipelineSystems ==
    SystemPool
    \cup { SysList(<<DictItem(<<"CLI_MARKER", "A">>, TRUE), DictItem(<<"S">>, FALSE)>>),
           SysStr(<<"m", "SP", "n", "ENV_OPEN", "e", "ENV_CLOSE">>) }

PipelineMessages ==
    { <<>>,
      <<Msg("user", ContentStr(<<"hi">>))>>,
      <<Msg("user", ContentList(<<TextBlock(<<"SR_OPEN", "TODO_NOISE", "SR_CLOSE">>, FALSE)>>)),
        Msg("assistant", ContentList(<<ToolUse, ToolUse>>))>>,
      <<Msg("user", ContentStr(<<"SR_OPEN", "CLAUDE_MD_INTRO", "NL", "CLAUDE_MD", "d",
                                 "SR_CLOSE", "hi">>)),
        Msg("assistant", ContentList(<<TextBlock(<<"ok">>, TRUE), ToolUse>>)),
        Msg("user", ContentList(<<ToolResult(<<"r">>)>>))>> }

PipelineTools ==
    { Absent,
      ListOf(<<Tool(<<"Grep">>, <<"d">>), Tool(<<"WebFetch">>, <<"d">>),
               Tool(<<"mcp__", "other">>, <<"d">>)>>) }

PipelineBodies ==
    {[EmptyBody EXCEPT !.system = sys, !.messages = ListOf(ms), !.tools = ts,
                       !.stream = st,
                       !.metadata = IF st THEN Metadata("user_session_abc") ELSE NoMetadata] :
        sys \in PipelineSystems, ms \in PipelineMessages, ts \in PipelineTools,
        st \in BOOLEAN}

Request(raw, doc, endpoint, headers, cfg) ==
    [raw |-> raw, doc |-> doc, endpoint |-> endpoint, headers |-> headers, cfg |-> cfg]

Requests ==
    {Request(raw, BareObject, e, h, Config([sub |-> {<<"S">>}, anth |-> {<<"A">>}], 1)) :
        raw \in ShortRaws \cup LongRaws \cup DocRaws, e \in Endpoints,
        h \in {CHOOSE h0 \in HeadersPool : TRUE}}
    \cup {Request(<<"DOC">>, d, e, h, c) :
            d \in PipelineBodies, e \in Endpoints, h \in HeadersPool, c \in Configs}
    \cup {Request(<<"DOC">>, [d EXCEPT !.metadata = NonDictMetadata], e, h, c) :
            d \in {b \in PipelineBodies : ~b.stream}, e \in Endpoints, h \in HeadersPool,
            c \in Configs}

Init ==
    /\ pc = "received"
    /\ inp \in Requests
    /\ out = None
    /\ out2 = None
    /\ mem = None
    /\ HttpIdle

\* _handle_proxy_request, line 60-63: parse the body, answer at once on an error
ParseJsonBody ==
    /\ pc = "received"
    /\ LET result == _parse_json_body(inp.raw, inp.doc, inp.cfg.max_body_size) IN
        /\ parsed' = result.parsed
        /\ log' = log \o result.logged
        /\ resp' = result.response
        /\ pc' = IF result.response.kind # "none" THEN "done" ELSE "parsed"
    /\ UNCHANGED <<inp, out, out2, mem, prepared, calls, conn>>

\* _handle_proxy_request, line 65-73: prepare_messages or prepare_count_tokens.  A
\* body that is no dict has no get(): the exception reaches the framework
PrepareRequest ==
    /\ pc = "parsed"
    /\ IF ~parsed.isdict
       THEN /\ resp' = InternalServerError
            /\ pc' = "done"
            /\ UNCHANGED <<prepared, log>>
       ELSE LET r == _prepare_request(parsed.body, inp.headers,
                                      inp.endpoint = "/v1/messages", inp.cfg)
            IN /\ prepared' = r.request
               /\ log' = Append(log, r.logged)
               /\ pc' = "prepared"
               /\ resp' = resp
    /\ UNCHANGED <<inp, out, out2, mem, parsed, calls, conn>>

\* proxy_request up to the outbound call: the client is looked up by the route it
\* is given; a KeyError reaches the framework
ProxyRequest ==
    /\ pc = "prepared"
    /\ IF prepared.route_name \notin ClientKeys
       THEN /\ resp' = InternalServerError
            /\ pc' = "done"
            /\ calls' = calls
       ELSE /\ calls' = Append(calls, UpstreamCall(prepared.route_name, prepared, inp.endpoint,
                                  RequestMode(prepared.body, inp.endpoint) = "streaming"))
            /\ pc' = "sent"
            /\ resp' = resp
    /\ UNCHANGED <<inp, out, out2, mem, parsed, prepared, log, conn>>

Next == ParseJsonBody \/ PrepareRequest \/ ProxyRequest

Spec == Init /\ [][Next]_vars

\* the response is a JSON object (an error envelope)
IsJsonEnvelope(r) ==
    /\ r.media_type = "application/json"
    /\ json_loads(r.content).ok
    /\ json_loads(r.content).type = "object"

RouteOf(body, cfg) == decide_route(body, cfg.subagent_markers, cfg.anthropic_markers)

\* C3: the upstream a request is prepared for is the one decided from the inbound
\* body, whatever sanitization did to the marker text, and the prepared request
\* keeps it.
C3_RouteFromInboundBody ==
    prepared.done =>
        /\ parsed.done
        /\ prepared.route_name =
              (IF RouteOf(parsed.body, inp.cfg) = "zai" THEN "z.ai" ELSE "Anthropic")
        /\ prepared.target_url =
              (IF RouteOf(parsed.body, inp.cfg) = "zai" THEN inp.cfg.zai_base_url
               ELSE inp.cfg.anthropic_base_url)

C3_Witness ==
    /\ prepared.done
    /\ prepared.route_name = "z.ai"
    /\ RouteOf(parsed.body, inp.cfg) = "zai"
    /\ RouteOf(prepared.body, inp.cfg) = "anthropic"

C13_PreparationUnchanged ==
    (prepared.done /\ PlainBody(parsed.body)) => prepared.body = parsed.body

\* C19: a request within the size limit whose body is a JSON text is parsed and
\* goes on to preparation whether the incoming log call succeeds or raises; it is
\* not answered from the parsing step.
C19_LogFailureTolerated ==
    (/\ pc # "received"
     /\ ByteLen(inp.raw) <= inp.cfg.max_body_size
     /\ json_loads(decode_replace(inp.raw)).ok)
    => /\ parsed.done
       /\ parsed.body = inp.doc \/ inp.raw # <<"DOC">>
       /\ resp.kind # "none" => pc = "done" /\ (prepared.done \/ ~parsed.isdict)

\* C20: the body prepared for a request decided Anthropic is the sanitized body
\* itself: its metadata is the inbound one, every cache_control hint and every
\* noise reminder block of the sanitized body is in it, and it holds no usage
\* warning that the sanitized body did not hold.
C20_PrimaryBodyUntransformed ==
    (prepared.done /\ prepared.route_name = "Anthropic") =>
        /\ prepared.body = _sanitize_request(parsed.body, FALSE, FALSE, inp.cfg)
        /\ prepared.body.metadata = parsed.body.metadata
        /\ prepared.headers = build_anthropic_headers(inp.headers)

C20_Witness ==
    /\ prepared.done
    /\ prepared.route_name = "Anthropic"
    /\ inp.endpoint = "/v1/messages"
    /\ inp.cfg.subagent_tool_warning > 0
    /\ prepared.body.metadata.present
    /\ \E b \in MessageBlocks(prepared.body) : _is_noise_reminder(b[3])
    /\ count_tool_uses(prepared.body.messages.list) >= inp.cfg.subagent_tool_warning
    /\ strip_anthropic_features(prepared.body) # prepared.body
    /\ inject_if_configured(prepared.body, TRUE, inp.cfg.subagent_tool_warning)
          # prepared.body

\* C28: the target name of a prepared request is a key of the relay's clients, and
\* a prepared request that has been handed to the relay has one outbound call, to
\* the client, base URL and headers of the upstream its route decision selected.
C28_RelayedThroughDecidedUpstream ==
    prepared.done =>
        /\ prepared.route_name \in ClientKeys
        /\ pc \in {"sent", "done"} =>
              /\ Len(calls) = 1
              /\ calls[1].client = RouteOf(parsed.body, inp.cfg)
              /\ calls[1].url[1] = (IF RouteOf(parsed.body, inp.cfg) = "zai"
                                    THEN inp.cfg.zai_base_url
                                    ELSE inp.cfg.anthropic_base_url)
              /\ calls[1].headers =
                    (IF RouteOf(parsed.body, inp.cfg) = "zai"
                     THEN build_zai_headers(inp.headers, inp.cfg.zai_api_key)
                     ELSE build_anthropic_headers(inp.headers))

\* C29: on either route the prepared body has the stream flag and the model of the
\* inbound body, so the mode the relay chooses from the prepared body is the mode
\* the inbound body asks for, and a call that is made carries them.
C29_StreamAndModelKept ==
    prepared.done =>
        /\ prepared.body.stream = parsed.body.stream
        /\ prepared.body.model = parsed.body.model
        /\ RequestMode(prepared.body, inp.endpoint) = RequestMode(parsed.body, inp.endpoint)
        /\ \A i \in 1..Len(calls) :
              /\ calls[i].body.model = parsed.body.model
              /\ calls[i].streamed = (RequestMode(parsed.body, inp.endpoint) = "streaming")

C29_Witness ==
    /\ prepared.done
    /\ prepared.route_name = "z.ai"
    /\ inp.endpoint = "/v1/messages"
    /\ parsed.body.stream
    /\ prepared.body.stream
    /\ prepared.body.model = "claude"
    /\ prepared.body # parsed.body
    /\ RequestMode(prepared.body, inp.endpoint) = "streaming"

\* inbound header sets that differ in credentials, version and other headers
Hdr(name, value) == IF value = "" THEN EmptyHeaders ELSE name :> value

HeaderVariants ==
    {Hdr("authorization", a) @@ Hdr("x-api-key", k) @@ Hdr("anthropic-version", v)
        @@ Hdr("user-agent", u) :
        a \in {"", "Bearer t", "Bearer u"}, k \in {"", "k", "k2"},
        v \in {"", "2024-01-01", "2023-06-01"}, u \in {"", "cli"}}

SameVersion(h1, h2) ==
    /\ ("anthropic-version" \in DOMAIN h1) = ("anthropic-version" \in DOMAIN h2)
    /\ "anthropic-version" \in DOMAIN h1 => h1["anthropic-version"] = h2["anthropic-version"]

InboundCredentials(headers) ==
    {headers[k] : k \in DOMAIN headers \cap {"authorization", "x-api-key"}}

\* C18: the headers of a request prepared for z.ai are the fixed content type, the
\* configured API key and the inbound anthropic-version (or its default): every
\* inbound header set with the same anthropic-version gives the same headers, and
\* no inbound authorization or x-api-key value is among them.
C18_ZaiHeadersIgnoreInbound ==
    (prepared.done /\ prepared.route_name = "z.ai") =>
        /\ DOMAIN prepared.headers = {"Content-Type", "x-api-key", "anthropic-version"}
        /\ prepared.headers["Content-Type"] = "application/json"
        /\ prepared.headers["x-api-key"] = inp.cfg.zai_api_key
        /\ prepared.headers["anthropic-version"] =
              (IF "anthropic-version" \in DOMAIN inp.headers
               THEN inp.headers["anthropic-version"] ELSE "2023-06-01")
        /\ \A h2 \in HeaderVariants :
              SameVersion(inp.headers, h2) =>
                  build_zai_headers(h2, inp.cfg.zai_api_key) = prepared.headers
        /\ \A k \in DOMAIN prepared.headers :
              prepared.headers[k] \notin InboundCredentials(inp.headers)

C18_Witness ==
    /\ prepared.done
    /\ prepared.route_name = "z.ai"
    /\ "x-api-key" \in DOMAIN inp.headers
    /\ inp.headers["x-api-key"] # inp.cfg.zai_api_key
    /\ prepared.headers["x-api-key"] = inp.cfg.zai_api_key
    /\ \E h2 \in HeaderVariants :
          /\ SameVersion(inp.headers, h2)
          /\ "authorization" \in DOMAIN h2
          /\ InboundCredentials(h2) # InboundCredentials(inp.headers)

\* the raw body holds a byte that is not valid UTF-8, or is not a JSON text
Malformed(raw) == HasTok(raw, {"BAD"}) \/ ~json_loads(raw).ok

\* C7: a request within the size limit whose body is malformed UTF-8 or malformed
\* JSON is answered 400 with a JSON error envelope and goes no further.
C7_MalformedRejected ==
    (ByteLen(inp.raw) <= inp.cfg.max_body_size /\ Malformed(inp.raw)) =>
        /\ pc \in {"received", "done"}
        /\ ~prepared.done
        /\ calls = <<>>
        /\ pc = "done" => (resp.status_code = 400 /\ IsJsonEnvelope(resp))

(***************************************************************************)
(* SpecLog: one request handled while the log-writer thread of             *)
(* ui/log_utils.py runs.  mem holds the value of the body objects of the   *)
(* request: P the parsed body, S the body sanitize returns, Z the body     *)
(* prepared for the upstream.  log is the writer's queue: each entry names *)
(* the object handed over and its value at the hand-over.  out is what the *)
(* writer has serialised, out2 the route decision.                         *)
(***************************************************************************)
LogRequests ==
    {Request(<<"DOC">>, d, e, CHOOSE h \in HeadersPool : TRUE, c) :
        d \in PipelineBodies, e \in Endpoints, c \in Configs}
    \cup {Request(<<"DOC">>, [d EXCEPT !.metadata = NonDictMetadata], e,
                  CHOOSE h \in HeadersPool : TRUE, c) :
            d \in {b \in PipelineBodies : ~b.stream /\ b.tools = Absent},
            e \in Endpoints, c \in Configs}

EmptyHeap == [P |-> BareObject, S |-> BareObject, Z |-> BareObject]

\* _log_executor.submit(...): the payload holds the body object itself
HandOff(kind, ref, value) == [kind |-> kind, ref |-> ref, handed |-> value]

InitLog ==
    /\ pc = "received"
    /\ inp \in LogRequests
    /\ out = <<>>
    /\ out2 = [is_zai |-> FALSE]
    /\ mem = EmptyHeap
    /\ HttpIdle

\* _parse_json_body: the parsed body is handed to write_incoming_log
LogParse ==
    /\ pc = "received"
    /\ LET result == _parse_json_body(inp.raw, inp.doc, inp.cfg.max_body_size) IN
        IF result.response.kind # "none"
        THEN /\ resp' = result.response
             /\ pc' = "done"
             /\ UNCHANGED <<mem, log, parsed>>
        ELSE /\ parsed' = result.parsed
             /\ mem' = [mem EXCEPT !.P = result.parsed.body]
             /\ log' = Append(log, HandOff("incoming", "P", result.parsed.body))
             /\ resp' = resp
             /\ pc' = "parsed"
    /\ UNCHANGED <<inp, out, out2, prepared, calls, conn>>

\* _prepare_request, line 98-103: the route is decided and sanitize called on the
\* parsed body
LogSanitize ==
    /\ pc = "parsed"
    /\ out2' = [is_zai |-> decide_route(mem.P, inp.cfg.subagent_markers,
                                        inp.cfg.anthropic_markers) = "zai"]
    /\ mem' = [mem EXCEPT
                  !.S = sanitize_call(mem.P,
                            SanitizeArguments(out2'.is_zai,
                                out2'.is_zai /\ _should_strip_claude_md(mem.P, inp.cfg),
                                inp.cfg)).returned,
                  !.P = sanitize_call(mem.P,
                            SanitizeArguments(out2'.is_zai,
                                out2'.is_zai /\ _should_strip_claude_md(mem.P, inp.cfg),
                                inp.cfg)).caller]
    /\ pc' = "sanitized"
    /\ UNCHANGED <<inp, out, httpVars>>

\* _prepare_zai: strip_anthropic_features assigns to the message dicts of the
\* sanitized body, the body it and inject_tool_limit_reminder return is handed to
\* log_zai.  _prepare_anthropic: the sanitized body is handed to log_anthropic
LogPrepare ==
    /\ pc = "sanitized"
    /\ prepared' = PrepareFor(out2.is_zai, mem.S, inp.headers,
                              inp.endpoint = "/v1/messages", inp.cfg).request
    /\ mem' = IF out2.is_zai
              THEN [mem EXCEPT !.S = strip_anthropic_features_aliased(mem.S),
                               !.Z = prepared'.body]
              ELSE [mem EXCEPT !.Z = mem.S]
    /\ log' = Append(log, IF out2.is_zai THEN HandOff("zai", "Z", prepared'.body)
                          ELSE HandOff("anthropic", "S", mem.S))
    /\ pc' = "prepared"
    /\ UNCHANGED <<inp, out, out2, parsed, resp, calls, conn>>

\* the writer thread: _write_json / _write_anthropic serialise the body object of
\* the next queued entry as it is at that moment
WriteLog ==
    /\ Len(out) < Len(log)
    /\ out' = Append(out, [kind |-> log[Len(out) + 1].kind,
                           written |-> mem[log[Len(out) + 1].ref],
                           handed |-> log[Len(out) + 1].handed])
    /\ UNCHANGED <<pc, inp, out2, mem, httpVars>>

NextLog == LogParse \/ LogSanitize \/ LogPrepare \/ ProxyRequest \/ WriteLog

SpecLog == InitLog /\ [][NextLog]_vars

\* C30: whenever the writer serialises a queued body it serialises the value the
\* body had when it was handed over, and no body waiting in the queue or already
\* written differs from the value handed over, at any point of the request.
C30_HandedBodyNotMutated ==
    /\ \A i \in 1..Len(out) : out[i].written = out[i].handed
    /\ \A i \in 1..Len(log) : mem[log[i].ref] = log[i].handed

C30_Witness ==
    /\ pc = "done"
    /\ Len(log) = 2
    /\ Len(out) = 2
    /\ out[1].kind = "incoming"
    /\ out[2].kind = "zai"
    /\ mem.S # mem.P
    /\ mem.Z # mem.S
    /\ out[1].written = mem.P
    /\ out[2].written = mem.Z

(***************************************************************************)
(* SpecRelay: UpstreamClient.proxy_request called with a route of its own  *)
(* Route type, against an upstream that answers, times out or fails, and   *)
(* the framework's answer when proxy_request raises.                       *)
(***************************************************************************)
UpstreamContents ==
    { <<>>, <<"{", "Q", "error", "Q", ":", "Q", "bad request", "Q", "}">>,
      <<"upstream", "BAD">>, <<"BAD">> }

UpstreamResponses ==
    {[status_code |-> st, content |-> c, has_content_type |-> h,
      content_type |-> IF h THEN t ELSE ""] :
        st \in {200, 400, 429, 500}, c \in UpstreamContents, h \in BOOLEAN,
        t \in {"application/json", "text/event-stream"}}

RelayBodies ==
    {[EmptyBody EXCEPT !.stream = st, !.messages = ListOf(ms)] :
        st \in BOOLEAN, ms \in PipelineMessages}

RelayRequests ==
    {PreparedRequest(route,
                     IF route = "zai" THEN "https://api.z.ai/api/anthropic"
                     ELSE "https://api.anthropic.com",
                     "Content-Type" :> "application/json", body) :
        route \in ClientKeys, body \in RelayBodies}

InitRelay ==
    /\ pc = "prepared"
    /\ inp \in {[endpoint |-> e] : e \in Endpoints}
    /\ prepared \in RelayRequests
    /\ parsed = NotParsed
    /\ resp = NoResponse
    /\ log = <<>>
    /\ calls = <<>>
    /\ conn = NoConnection
    /\ out = None
    /\ out2 = None
    /\ mem = None

Failed(kind) == [NoConnection EXCEPT !.state = kind]

\* a timeout sends the request again
UpstreamTimeout_retry ==
    /\ pc = "sent"
    /\ conn' = NoConnection
    /\ log' = Append(log, log_error(_DISPLAY_NAMES[prepared.route_name], 504,
                                    <<"Upstream timeout">>))
    /\ resp' = resp
    /\ pc' = "prepared"
    /\ UNCHANGED <<inp, out, out2, mem, parsed, prepared, calls>>

\* proxy_request, line 92-96: httpx.TimeoutException is logged as a 504 and
\* UpstreamTimeoutError raised; create_app registers no handler for it
UpstreamTimeout ==
    /\ pc = "sent"
    /\ conn' = Failed("timeout")
    /\ log' = Append(log, log_error(_DISPLAY_NAMES[prepared.route_name], 504,
                                    <<"Upstream timeout">>))
    /\ resp' = InternalServerError
    /\ pc' = "done"
    /\ UNCHANGED <<inp, out, out2, mem, parsed, prepared, calls>>

\* proxy_request, line 97-101: httpx.ConnectError is logged as a 502 and
\* UpstreamConnectionError raised
UpstreamConnectError ==
    /\ pc = "sent"
    /\ conn' = Failed("connect_error")
    /\ log' = Append(log, log_error(_DISPLAY_NAMES[prepared.route_name], 502,
                                    <<"All connection attempts failed">>))
    /\ resp' = InternalServerError
    /\ pc' = "done"
    /\ UNCHANGED <<inp, out, out2, mem, parsed, prepared, calls>>

\* proxy_request, line 102-106: any other httpx.RequestError likewise
UpstreamRequestError ==
    /\ pc = "sent"
    /\ conn' = Failed("request_error")
    /\ log' = Append(log, log_error(_DISPLAY_NAMES[prepared.route_name], 502,
                                    <<"Server disconnected">>))
    /\ resp' = InternalServerError
    /\ pc' = "done"
    /\ UNCHANGED <<inp, out, out2, mem, parsed, prepared, calls>>

\* _count_tokens_request and _non_streaming_request: client.post reads the whole
\* response and releases the connection
BufferedResponds(r) ==
    /\ RequestMode(prepared.body, inp.endpoint) # "streaming"
    /\ conn' = Received(r, "closed", TRUE)
    /\ log' = log \o _log_non_200(r, _DISPLAY_NAMES[prepared.route_name])
    /\ resp' = _build_response(r)
    /\ pc' = "done"

\* _streaming_request, line 156-168: aread() drains the body, which releases the
\* connection; error_body.decode() is strict and raises on a body that is not
\* UTF-8, before log_error is called and before anything is returned
StreamingErrorResponds(r) ==
    /\ RequestMode(prepared.body, inp.endpoint) = "streaming"
    /\ r.status_code # 200
    /\ conn' = Received(r, "closed", TRUE)
    /\ IF CanDecode(r.content)
       THEN /\ log' = Append(log, log_error(_DISPLAY_NAMES[prepared.route_name],
                                            r.status_code, r.content))
            /\ resp' = _build_response(r)
       ELSE /\ log' = log
            /\ resp' = InternalServerError
    /\ pc' = "done"

\* _streaming_request, line 170-175: a 200 is handed on as a StreamingResponse
\* over the open upstream response
StreamingOkResponds(r) ==
    /\ RequestMode(prepared.body, inp.endpoint) = "streaming"
    /\ r.status_code = 200
    /\ conn' = Received(r, "open", FALSE)
    /\ log' = log
    /\ resp' = StreamingResponse(r)
    /\ pc' = "streaming"

UpstreamResponds ==
    /\ pc = "sent"
    /\ \E r \in UpstreamResponses :
          \/ BufferedResponds(r)
          \/ StreamingErrorResponds(r)
          \/ StreamingOkResponds(r)
    /\ UNCHANGED <<inp, out, out2, mem, parsed, prepared, calls>>

\* the consumer takes the next chunk of response.aiter_bytes()
StreamChunk ==
    /\ pc = "streaming"
    /\ Len(resp.content) < Len(conn.content)
    /\ resp' = [resp EXCEPT !.content = Append(@, conn.content[Len(@) + 1])]
    /\ UNCHANGED <<pc, inp, out, out2, mem, parsed, prepared, log, calls, conn>>

\* the consumer has read the stream to its end: the iterator is exhausted, which
\* closes the upstream response, and the response to the caller is complete
StreamFinished ==
    /\ pc = "streaming"
    /\ resp.content = conn.content
    /\ conn' = [conn EXCEPT !.state = "closed", !.drained = TRUE]
    /\ pc' = "stream_finished"
    /\ UNCHANGED <<inp, out, out2, mem, parsed, prepared, resp, log, calls>>

\* the consumer goes away before the end: the iterator is left where it is
StreamCancelled ==
    /\ pc = "streaming"
    /\ Len(resp.content) < Len(conn.content)
    /\ pc' = "stream_cancelled"
    /\ UNCHANGED <<inp, out, out2, mem, parsed, prepared, resp, log, calls, conn>>

\* the response is over: its BackgroundTask runs _cleanup_streaming, which
\* closes the upstream response
CleanupStreaming ==
    /\ pc \in {"stream_finished", "stream_cancelled"}
    /\ resp.background = "_cleanup_streaming"
    /\ conn' = [conn EXCEPT !.state = "closed"]
    /\ pc' = "done"
    /\ UNCHANGED <<inp, out, out2, mem, parsed, prepared, resp, log, calls>>

NextRelay ==
    \/ ProxyRequest
    \/ UpstreamTimeout
    \/ UpstreamConnectError
    \/ UpstreamRequestError
    \/ UpstreamResponds
    \/ StreamChunk
    \/ StreamFinished
    \/ StreamCancelled
    \/ CleanupStreaming

SpecRelay == InitRelay /\ [][NextRelay]_vars

\* the event loop keeps serving a response that is being sent and runs the
\* background task of a response that is over
SpecRelayLive ==
    /\ InitRelay
    /\ [][NextRelay]_vars
    /\ WF_vars(StreamChunk)
    /\ WF_vars(StreamFinished)
    /\ WF_vars(CleanupStreaming)

ErrorObservations == SelectSeq(log, LAMBDA entry : entry.kind = "error")

\* C4: a streaming message call answered with a status other than 200 gives the
\* caller a buffered response with exactly the upstream's status and body, with
\* the upstream body drained and the connection closed, and one error observation.
C4_StreamingErrorRelayed ==
    (/\ pc = "done"
     /\ RequestMode(prepared.body, inp.endpoint) = "streaming"
     /\ conn.state \in {"open", "closed"}
     /\ conn.status_code # 200)
    => /\ resp.kind = "buffered"
       /\ resp.status_code = conn.status_code
       /\ resp.content = conn.content
       /\ conn.drained
       /\ conn.state = "closed"
       /\ Len(ErrorObservations) = 1

\* C15: the upstream connection of a streaming call answered 200 stays open while
\* the consumer is draining, and an open one is closed in the end, whether the
\* consumer finishes or goes away.
C15_StreamReleased ==
    /\ [](pc = "streaming" => conn.state = "open")
    /\ (conn.state = "open") ~> (conn.state = "closed")

C15_Witness ==
    /\ pc = "done"
    /\ resp.kind = "stream"
    /\ Len(resp.content) < Len(conn.content)
    /\ conn.state = "closed"

\* C16: at most one upstream call is issued for a request, and none is added once
\* the upstream has timed out, failed or answered.
C16_SingleUpstreamCall ==
    /\ Len(calls) <= 1
    /\ pc \notin {"prepared"} => Len(calls) = 1
    /\ conn.state # "none" => calls = <<UpstreamCall(prepared.route_name, prepared, inp.endpoint,
                                   RequestMode(prepared.body, inp.endpoint) = "streaming")>>

C16_Witness ==
    /\ pc = "done"
    /\ conn.state = "timeout"
    /\ Len(calls) = 1

\* C17: a buffered message call or a token-count call that the upstream answers
\* gives the caller the upstream's status code, body and content type (JSON when
\* the upstream names none) whatever the status, and the error observations are
\* exactly one log_error with the target's name and the status when the status is
\* not 200, and none when it is 200.
C17_BufferedRelayed ==
    (/\ pc = "done"
     /\ RequestMode(prepared.body, inp.endpoint) # "streaming"
     /\ conn.state = "closed")
    => /\ resp.kind = "buffered"
       /\ resp.status_code = conn.status_code
       /\ resp.content = conn.content
       /\ resp.media_type = IF conn.has_content_type THEN conn.content_type
                             ELSE "application/json"
       /\ conn.status_code = 200 => ErrorObservations = <<>>
       /\ conn.status_code # 200 =>
              /\ Len(ErrorObservations) = 1
              /\ ErrorObservations[1].route_name = _DISPLAY_NAMES[prepared.route_name]
              /\ ErrorObservations[1].status_code = conn.status_code

C17_Witness ==
    /\ pc = "done"
    /\ RequestMode(prepared.body, inp.endpoint) = "count_tokens"
    /\ conn.state = "closed"
    /\ conn.status_code = 429
    /\ resp.status_code = 429
    /\ resp.content = <<"BAD">>
    /\ Len(ErrorObservations) = 1

====
